---- MODULE Spec2Model ----
(***************************************************************************)
(* Film identity resolution of cinescout: title normalisation, the         *)
(* FilmMatcher stages, the scrape batches that call it, the placeholder    *)
(* clean-up and the TMDb backfill, over a PostgreSQL store (READ COMMITTED)*)
(* reached through SQLAlchemy sessions created with autoflush=False.       *)
(***************************************************************************)
EXTENDS Integers, Sequences, FiniteSets, TLC

(***************************************************************************)
(* Text.  A Python str is a sequence of one-character strings.             *)
(***************************************************************************)
\* Optional values: None is the empty tuple, a present value v is <<v>>
None == <<>>

Some(v) == <<v>>

Digits == {"0","1","2","3","4","5","6","7","8","9"}

UpperSeq == <<"A","B","C","D","E","F","G","H","I","J","K","L","M","N","O","P","Q","R","S","T","U","V","W","X","Y","Z">>

LowerSeq == <<"a","b","c","d","e","f","g","h","i","j","k","l","m","n","o","p","q","r","s","t","u","v","w","x","y","z">>

\* \s of the regular expressions (titles hold no tab or newline)
Whitespace == {" "}

\* [-–—] of the dash-suffix pattern (hyphen, en dash, em dash)
DashChars == {"-"}

Max(x, y) == IF x >= y THEN x ELSE y

Lower(c) ==
  IF \E i \in 1..26 : UpperSeq[i] = c
  THEN LowerSeq[CHOOSE i \in 1..26 : UpperSeq[i] = c]
  ELSE c

\* str.lower()
lower(s) == [i \in 1..Len(s) |-> Lower(s[i])]

RECURSIVE lstrip(_, _)
lstrip(s, cs) == IF s # <<>> /\ Head(s) \in cs THEN lstrip(Tail(s), cs) ELSE s

RECURSIVE rstrip(_, _)
rstrip(s, cs) ==
  IF s # <<>> /\ s[Len(s)] \in cs THEN rstrip(SubSeq(s, 1, Len(s) - 1), cs) ELSE s

\* str.strip()
strip(s) == rstrip(lstrip(s, Whitespace), Whitespace)

\* last index of the run of characters of cs that starts at i (i-1: no run)
RECURSIVE RunEnd(_, _, _)
RunEnd(s, cs, i) == IF i <= Len(s) /\ s[i] \in cs THEN RunEnd(s, cs, i + 1) ELSE i - 1

SpaceRunEnd(s, i) == RunEnd(s, Whitespace, i)

\* first index >= i holding character c, 0 when there is none
RECURSIVE IndexFrom(_, _, _)
IndexFrom(s, c, i) ==
  IF i > Len(s) THEN 0 ELSE IF s[i] = c THEN i ELSE IndexFrom(s, c, i + 1)

\* start of the leftmost match of a pattern that is given by its test At(s, i)
FirstMatch(s, At(_, _)) ==
  IF \E i \in 1..Len(s) : At(s, i)
  THEN CHOOSE i \in 1..Len(s) : At(s, i) /\ \A h \in 1..(i - 1) : ~At(s, h)
  ELSE 0

\* re.sub(pattern ending in $, "", s)
CutFrom(s, At(_, _)) ==
  IF FirstMatch(s, At) = 0 THEN s ELSE SubSeq(s, 1, FirstMatch(s, At) - 1)

IsDigitAt(s, q) == q >= 1 /\ q <= Len(s) /\ s[q] \in Digits

\* r"\s+[-–—]\s+\S.*$" matches at i
DashSuffixAt(s, i) ==
  LET j == SpaceRunEnd(s, i)
      k == SpaceRunEnd(s, j + 2)
  IN  /\ j >= i
      /\ j + 1 <= Len(s)
      /\ s[j + 1] \in DashChars
      /\ k >= j + 2
      /\ k + 1 <= Len(s)

\* ")" at q followed by \s*$
ClosesAt(s, q) == q <= Len(s) /\ s[q] = ")" /\ SpaceRunEnd(s, q + 1) = Len(s)

\* r"\s*\(\d{4}(?:-\d{2,4})?\)\s*$" matches at i
YearSuffixAt(s, i) ==
  LET p == SpaceRunEnd(s, i) + 1
  IN  /\ p <= Len(s)
      /\ s[p] = "("
      /\ \A d \in 1..4 : IsDigitAt(s, p + d)
      /\ \/ ClosesAt(s, p + 5)
         \/ /\ p + 5 <= Len(s)
            /\ s[p + 5] = "-"
            /\ \E n \in 2..4 :
                 /\ \A d \in 1..n : IsDigitAt(s, p + 5 + d)
                 /\ ClosesAt(s, p + 6 + n)

\* r"\s*\(\d{4}\)\s*$" matches at i (the display title of a placeholder)
PlainYearSuffixAt(s, i) ==
  LET p == SpaceRunEnd(s, i) + 1
  IN  /\ p <= Len(s)
      /\ s[p] = "("
      /\ \A d \in 1..4 : IsDigitAt(s, p + d)
      /\ ClosesAt(s, p + 5)

\* length of the match of r"\s*\[[^\]]+\]\s*" at i, 0 when it does not match
TagLenAt(s, i) ==
  LET p == SpaceRunEnd(s, i) + 1
      q == IndexFrom(s, "]", p + 1)
  IN  IF p <= Len(s) /\ s[p] = "[" /\ q >= p + 2
      THEN SpaceRunEnd(s, q + 1) - i + 1
      ELSE 0

\* re.sub(r"\s*\[[^\]]+\]\s*", " ", s) from position i on
RECURSIVE StripTags(_, _)
StripTags(s, i) ==
  IF i > Len(s) THEN <<>>
  ELSE IF TagLenAt(s, i) > 0 THEN <<" ">> \o StripTags(s, i + TagLenAt(s, i))
  ELSE <<s[i]>> \o StripTags(s, i + 1)

\* r"\s*\([^)]*(?<!\d)\)\s*$" matches at i
ParenSuffixAt(s, i) ==
  LET p == SpaceRunEnd(s, i) + 1
      q == IndexFrom(s, ")", p + 1)
  IN  /\ p <= Len(s)
      /\ s[p] = "("
      /\ q > 0
      /\ s[q - 1] \notin Digits
      /\ SpaceRunEnd(s, q + 1) = Len(s)

prefixes ==
  << <<"P","r","e","v","i","e","w",":">>,
     <<"S","n","e","a","k"," ","P","r","e","v","i","e","w",":">>,
     <<"A","d","v","a","n","c","e","d"," ","S","c","r","e","e","n","i","n","g",":">>,
     <<"S","p","e","c","i","a","l"," ","S","c","r","e","e","n","i","n","g",":">>,
     <<"M","e","m","b","e","r"," ","S","c","r","e","e","n","i","n","g",":">>,
     <<"Q","&","A",":">>,
     <<"I","n","t","r","o",":">>,
     <<"N","T"," ","L","i","v","e",":">>,
     <<"R","O","H",":">>,
     <<"F","i","l","m"," ","C","l","u","b",":">>,
     <<"D","o","c","h","o","u","s","e",":">>,
     <<"D","o","c"," ","H","o","u","s","e",":">>,
     <<"S","h","o","r","t","s",":">>,
     <<"S","h","o","r","t","s"," ","C","l","u","b",":">>,
     <<"D","o","c","u","m","e","n","t","a","r","y",":">>,
     <<"R","e","l","a","x","e","d",":">>,
     <<"R","e","l","a","x","e","d"," ","S","c","r","e","e","n","i","n","g",":">>,
     <<"D","e","m","e","n","t","i","a"," ","F","r","i","e","n","d","l","y",":">>,
     <<"S","i","l","v","e","r"," ","S","c","r","e","e","n",":">>,
     <<"P","a","r","e","n","t"," ","&"," ","B","a","b","y",":">>,
     <<"B","a","b","y"," ","C","i","n","e","m","a",":">>,
     <<"A","u","t","i","s","m"," ","F","r","i","e","n","d","l","y",":">> >>

\* re.sub(r"^<prefix>\s+", "", s, flags=re.IGNORECASE)
StripPrefix(s, p) ==
  IF /\ Len(s) >= Len(p)
     /\ \A k \in 1..Len(p) : Lower(s[k]) = Lower(p[k])
     /\ SpaceRunEnd(s, Len(p) + 1) >= Len(p) + 1
  THEN SubSeq(s, SpaceRunEnd(s, Len(p) + 1) + 1, Len(s))
  ELSE s

\* the loop over the prefixes, from the k-th on
RECURSIVE StripPrefixes(_, _)
StripPrefixes(s, k) ==
  IF k > Len(prefixes) THEN s ELSE StripPrefixes(StripPrefix(s, prefixes[k]), k + 1)

\* re.sub(<run of characters of cs>, r, s) from position i on
RECURSIVE CollapseRuns(_, _, _, _)
CollapseRuns(s, cs, r, i) ==
  IF i > Len(s) THEN <<>>
  ELSE IF s[i] \in cs THEN <<r>> \o CollapseRuns(s, cs, r, RunEnd(s, cs, i) + 1)
  ELSE <<s[i]>> \o CollapseRuns(s, cs, r, i + 1)

normalise_title(title) ==
  LET t1 == strip(title)
      t2 == CutFrom(t1, DashSuffixAt)
      t3 == CutFrom(t2, YearSuffixAt)
      t4 == StripTags(t3, 1)
      t5 == CutFrom(t4, ParenSuffixAt)
      t6 == StripPrefixes(t5, 1)
      t7 == CollapseRuns(t6, Whitespace, " ", 1)
  IN  strip(t7)

SlugChars == {LowerSeq[i] : i \in 1..26} \cup Digits \cup {"-"}

IsSlugChar(c) == c \in SlugChars

slugify(text) ==
  LET t1 == lower(text)
      t2 == CollapseRuns(t1, Whitespace \cup {"_"}, "-", 1)
      t3 == SelectSeq(t2, IsSlugChar)
      t4 == CollapseRuns(t3, {"-"}, "-", 1)
  IN  rstrip(lstrip(t4, {"-"}), {"-"})

DigitSeq == <<"0","1","2","3","4","5","6","7","8","9">>

DigitVal(c) == (CHOOSE i \in 1..10 : DigitSeq[i] = c) - 1

\* int(<digits>)
RECURSIVE IntOf(_)
IntOf(ds) ==
  IF ds = <<>> THEN 0 ELSE 10 * IntOf(SubSeq(ds, 1, Len(ds) - 1)) + DigitVal(ds[Len(ds)])

\* str(n), n >= 0
RECURSIVE StrOf(_)
StrOf(n) == IF n < 10 THEN <<DigitSeq[n + 1]>> ELSE StrOf(n \div 10) \o <<DigitSeq[(n % 10) + 1]>>

\* r"\((\d{4})\)" matches at i
YearAt(s, i) ==
  /\ s[i] = "("
  /\ \A d \in 1..4 : IsDigitAt(s, i + d)
  /\ i + 5 <= Len(s)
  /\ s[i + 5] = ")"

\* year_match = re.search(r"\((\d{4})\)", t); int(year_match.group(1)) or None
TitleYear(t) ==
  IF FirstMatch(t, YearAt) = 0 THEN None
  ELSE Some(IntOf(SubSeq(t, FirstMatch(t, YearAt) + 1, FirstMatch(t, YearAt) + 4)))

_extract_year(release_date) ==
  IF release_date = <<>> THEN None
  ELSE IF \A i \in 1..Len(SubSeq(release_date, 1, 4)) : release_date[i] \in Digits
       THEN Some(IntOf(SubSeq(release_date, 1, 4)))
       ELSE None

\* "if year:" is false for None and for 0
_generate_film_id(title, year) ==
  IF year # None /\ year[1] # 0
  THEN slugify(title) \o <<"-">> \o StrOf(year[1])
  ELSE slugify(title)

(***************************************************************************)
(* rapidfuzz.fuzz.ratio: 100 * 2 * LCS / (len1 + len2), kept as the exact   *)
(* fraction <<numerator, denominator>>; two empty strings score 100.        *)
(***************************************************************************)
RECURSIVE LcsRowFill(_, _, _, _, _)
LcsRowFill(c, b, prev, cur, j) ==
  IF j > Len(b) THEN cur
  ELSE LET v == Append(cur, IF c = b[j] THEN prev[j] + 1 ELSE Max(prev[j + 1], cur[j]))
       IN  IF Len(v) = j + 1 THEN LcsRowFill(c, b, prev, v, j + 1) ELSE <<>>

RECURSIVE LcsRows(_, _, _, _)
LcsRows(a, b, prev, i) ==
  IF i > Len(a) THEN prev[Len(b) + 1]
  ELSE LET row == LcsRowFill(a[i], b, prev, <<0>>, 1)
       IN  IF Len(row) = Len(b) + 1 THEN LcsRows(a, b, row, i + 1) ELSE 0

LCS(a, b) == LcsRows(a, b, [j \in 1..(Len(b) + 1) |-> 0], 1)

ratio(a, b) ==
  IF Len(a) + Len(b) = 0 THEN <<100, 1>> ELSE <<200 * LCS(a, b), Len(a) + Len(b)>>

\* ScoreGT with score >= best_score: a later film with the same score replaces the best
ScoreNotLess(x, y) == x[1] * y[2] >= y[1] * x[2]

ScoreGT(x, y) == x[1] * y[2] > y[1] * x[2]

\* ScoreGE with a strict comparison: best_score > threshold
ScoreGreater(x, n) == x[1] > n * x[2]

ScoreGE(x, n) == x[1] >= n * x[2]

(***************************************************************************)
(* Inputs of the model: raw titles as cinemas list them, the TMDb          *)
(* catalogue, cinemas and start times.                                     *)
(***************************************************************************)
RawNosYear == <<"N","o","s"," ","(","2","0","2","4",")">>

RawNosf == <<"N","o","s","f">>

RawRohQa == <<"R","O","H",":"," ","Q","&","A",":"," ","N","o","s">>

RawTitles == {RawNosYear, RawNosf, RawRohQa}

\* TMDb entries: id, title, release_date, and whether credits or countries are listed
TmdbCatalog ==
  { [id |-> 7, title |-> <<"N","o","s">>, release_date |-> <<"2","0","2","4","-","1","2","-","2","5">>, meta |-> TRUE] }

\* cinemas rows: id and scraper_type; "odeon" is not in SCRAPER_REGISTRY
CinemaRows == { [id |-> "c1", scraper_type |-> "bfi"], [id |-> "c2", scraper_type |-> "curzon"],
                [id |-> "c9", scraper_type |-> "odeon"] }

SCRAPER_REGISTRY == {"barbican", "bfi", "cinema-museum", "curzon", "depot-lewes", "garden",
                     "nickel", "picturehouse", "prince-charles", "regent-street", "rio",
                     "screen-shot"}

get_scraper(scraper_type) == IF scraper_type \in SCRAPER_REGISTRY THEN Some(scraper_type) ELSE None

StartTimes == {1, 2}

Sessions == {"s1", "s2"}

\* bounds of the exploration
MaxBatch == 2
RaceBatch == 1

MaxOps == 1

FUZZY_THRESHOLD == 85

(***************************************************************************)
(* The store.  films, aliases, showings are the committed tables; tx[s] is *)
(* what session s has written in its open transaction and not committed;   *)
(* orm[s] is the unit of work of the session that no flush has sent yet     *)
(* (the sessions are created with autoflush=False).                         *)
(***************************************************************************)
VARIABLES films, aliases, showings, tx, orm, sst, pc, job, loc, log, world, nops

vars == <<films, aliases, showings, tx, orm, sst, pc, job, loc, log, world, nops>>

FilmRow(id, title, year, tmdb_id, meta) ==
  [id |-> id, title |-> title, year |-> year, tmdb_id |-> tmdb_id, meta |-> meta]

AliasRow(nt, fid) == [normalized_title |-> nt, film_id |-> fid]

ShowingRow(c, fid, t, raw) == [cinema_id |-> c, film_id |-> fid, start_time |-> t, raw_title |-> raw]

\* uq_cinema_film_time
ShowKey(r) == <<r.cinema_id, r.film_id, r.start_time>>

Ids(F) == {r.id : r \in F}

Range(q) == {q[i] : i \in 1..Len(q)}

EmptyTx == [fIns |-> {}, fDel |-> {}, aIns |-> {}, aDel |-> {}, sIns |-> {}, sDel |-> {}]

EmptyOrm == [new |-> <<>>, upd |-> {}, del |-> {}, aupd |-> {}, adel |-> {}]

\* READ COMMITTED: every statement of s sees the committed rows and s's own writes
VFilms(s) == (films \ tx[s].fDel) \cup tx[s].fIns

VAliases(s) == (aliases \ tx[s].aDel) \cup tx[s].aIns

VShowings(s) == (showings \ tx[s].sDel) \cup tx[s].sIns

\* the transaction that turns the committed tables into the view F, A, S
TxOf(F, A, S) ==
  [fIns |-> F \ films, fDel |-> films \ F,
   aIns |-> A \ aliases, aDel |-> aliases \ A,
   sIns |-> S \ showings, sDel |-> showings \ S]

\* the object the identity map of s holds for the stored showing row r
MemShowing(s, r) ==
  IF \E p \in orm[s].upd : p[1] = r THEN (CHOOSE p \in orm[s].upd : p[1] = r)[2] ELSE r

\* attribute assignment on the loaded showing row r: it stays pending until a flush
SetShowing(o, r, m) == [o EXCEPT !.upd = {p \in @ : p[1] # r} \cup {<<r, m>>}]


\* a unique constraint over whole rows: does not stop a second alias of the title
uq_title_and_film(A, na) ==
  \A r \in na : \A x \in A : x # r

\* UniqueConstraint("normalized_title", name="uq_normalized_title"): may the rows
\* na be inserted into A
uq_normalized_title(A, na) ==
  \A r \in na : \A x \in A : x.normalized_title # r.normalized_title

\* a unique constraint that also covers raw_title
uq_cinema_film_time_title(S, new) ==
  \A i \in 1..Len(new) :
    /\ \A x \in S : x # new[i]
    /\ \A k \in 1..(i - 1) : new[k] # new[i]

\* UniqueConstraint("cinema_id", "film_id", "start_time", name="uq_cinema_film_time"):
\* may the rows new be inserted into S, one after the other
uq_cinema_film_time(S, new) ==
  \A i \in 1..Len(new) :
    /\ \A x \in S : ShowKey(x) # ShowKey(new[i])
    /\ \A k \in 1..(i - 1) : ShowKey(new[k]) # ShowKey(new[i])

\* an index on tmdb_id that is not unique
ix_films_tmdb_id_plain(F, r) == TRUE

\* tmdb_id: mapped_column(Integer, nullable=True, unique=True, index=True): may the
\* row r be written next to the rows F (NULLs never conflict)
ix_films_tmdb_id(F, r) ==
  r.tmdb_id # None => \A x \in F : x.tmdb_id # r.tmdb_id

(***************************************************************************)
(* Session.flush(): the statements of the unit of work o, with the new     *)
(* film rows nf, alias rows na and showing rows ns (a sequence) added just  *)
(* before it, run against the tables F, A, S the session sees.  st is "ok", *)
(* "integrity" (IntegrityError: a unique or foreign key constraint) or      *)
(* "stale" (StaleDataError: an UPDATE matched no row).                      *)
(***************************************************************************)
Flush(F, A, S, o, nf, na, ns) ==
  LET F1 == F \cup nf
      filmOK == \A r \in nf :
                  /\ \A x \in F : x.id # r.id
                  /\ ix_films_tmdb_id(F, r)
      aMoved == {q \in o.aupd : q[1] # q[2]}
      aStale == \E q \in aMoved : q[1] \notin A
      A1 == (A \ {q[1] : q \in aMoved}) \cup {q[2] : q \in aMoved}
      aUpdOK == \A q \in aMoved : q[2].film_id \in Ids(F1)
      aInsOK == /\ uq_normalized_title(A1, na)
                /\ \A r \in na : r.film_id \in Ids(F1)
      A2 == A1 \cup na
      sMoved == {q \in o.upd : q[1] # q[2]}
      sStale == \E q \in sMoved : q[1] \notin S
      Srest == S \ {q[1] : q \in sMoved}
      sUpdOK == \A q \in sMoved :
                  /\ q[2].film_id \in Ids(F1)
                  /\ ShowKey(q[2]) # ShowKey(q[1]) =>
                       /\ \A x \in Srest : ShowKey(x) # ShowKey(q[2])
                       /\ \A x \in sMoved \ {q} : ShowKey(x[2]) # ShowKey(q[2])
      S1 == Srest \cup {q[2] : q \in sMoved}
      allNew == o.new \o ns
      sInsOK == /\ uq_cinema_film_time(S1, allNew)
                /\ \A i \in 1..Len(allNew) : allNew[i].film_id \in Ids(F1)
      S2 == S1 \cup Range(allNew)
      st == IF ~filmOK THEN "integrity"
            ELSE IF aStale THEN "stale"
            ELSE IF ~aUpdOK \/ ~aInsOK THEN "integrity"
            ELSE IF sStale THEN "stale"
            ELSE IF ~sUpdOK \/ ~sInsOK THEN "integrity"
            ELSE "ok"
  IN  [st |-> st, F |-> F1, A |-> A2 \ o.adel, S |-> S2 \ o.del]

(***************************************************************************)
(* Row locks.  A statement that writes a key another open transaction has  *)
(* written waits until that transaction ends; a DELETE of a film waits for  *)
(* the transactions that inserted rows referencing it, and an insert of a   *)
(* referencing row waits for a transaction that deleted the film.           *)
(***************************************************************************)
Tmdbs(F) == {r.tmdb_id : r \in {x \in F : x.tmdb_id # None}}

NoLocks == [film |-> {}, tmdb |-> {}, alias |-> {}, showing |-> {}, ref |-> {}, delfilm |-> {}]

Held(t) ==
  [film |-> Ids(tx[t].fIns \cup tx[t].fDel),
   tmdb |-> Tmdbs(tx[t].fIns \cup tx[t].fDel),
   alias |-> {r.normalized_title : r \in tx[t].aIns \cup tx[t].aDel},
   showing |-> {ShowKey(r) : r \in tx[t].sIns \cup tx[t].sDel},
   ref |-> {r.film_id : r \in tx[t].sIns \cup tx[t].aIns},
   delfilm |-> Ids(tx[t].fDel)]

\* the locks the flush of o with the new rows nf, na, ns asks for
FlushLocks(o, nf, na, ns) ==
  [film |-> Ids(nf),
   tmdb |-> Tmdbs(nf),
   alias |-> {r.normalized_title : r \in na \cup o.adel} \cup
             {q[1].normalized_title : q \in o.aupd},
   showing |-> {ShowKey(r) : r \in Range(o.new) \cup Range(ns) \cup o.del} \cup
               {ShowKey(q[1]) : q \in o.upd} \cup {ShowKey(q[2]) : q \in o.upd},
   ref |-> {r.film_id : r \in na \cup Range(o.new) \cup Range(ns)} \cup
           {q[2].film_id : q \in o.upd \cup o.aupd},
   delfilm |-> {}]

Conflicts(w, h) ==
  \/ w.film \cap h.film # {}
  \/ w.tmdb \cap h.tmdb # {}
  \/ w.alias \cap h.alias # {}
  \/ w.showing \cap h.showing # {}
  \/ w.ref \cap h.delfilm # {}
  \/ w.delfilm \cap h.ref # {}

Blocked(s, w) == \E t \in Sessions \ {s} : Conflicts(w, Held(t))

(***************************************************************************)
(* The world outside the program: TMDb, the cinemas table and the cinema   *)
(* websites.  world.free: every TMDb call may get any answer; otherwise    *)
(* the answer to a query is world.ans[query].  An answer is None           *)
(* (search_film or get_film_details returned None) or Some(entry of the    *)
(* catalogue).  world.cinemas are the rows of the cinemas table,           *)
(* world.titles and world.times what the scrapers find on the websites.    *)
(***************************************************************************)
Queries ==
  {normalise_title(r) : r \in RawTitles} \cup
  {CutFrom(normalise_title(r), PlainYearSuffixAt) : r \in RawTitles} \cup
  {e.title : e \in TmdbCatalog}

TmdbAnswers == {None} \cup {Some(e) : e \in TmdbCatalog}

Answers(q) == IF world.free THEN TmdbAnswers ELSE {world.ans[q]}

\* TMDbClient.search_film: the first result, None on no result or any error
search_film(q) == Answers(q)

\* TMDbClient.get_film_details: the entry, None on any error (a world with fixed
\* answers fixes the outcome of the whole lookup)
get_film_details(e) == IF world.free THEN {None, Some(e)} ELSE {Some(e)}

\* the lookups _create_from_tmdb can see: search, and details when the search hit
Lookups(q) ==
  {[search |-> a, details |-> None] : a \in {x \in search_film(q) : x = None}} \cup
  UNION {{[search |-> a, details |-> d] : d \in get_film_details(a[1])} :
           a \in {x \in search_film(q) : x # None}}

\* whether TMDb has a film for the query
Available(q) == IF world.free THEN TmdbCatalog # {} ELSE world.ans[q] # None

\* the Film(...) that _create_from_tmdb builds from the details
FilmFromTmdb(e) ==
  FilmRow(_generate_film_id(e.title, _extract_year(e.release_date)),
          e.title, _extract_year(e.release_date), Some(e.id), e.meta)

\* the Film(...) that _create_placeholder builds
PlaceholderFilm(normalized_title) ==
  LET display_title == CutFrom(normalized_title, PlainYearSuffixAt)
      year == TitleYear(normalized_title)
  IN  FilmRow(_generate_film_id(display_title, year), display_title, year, None, FALSE)

(***************************************************************************)
(* FilmMatcher                                                             *)
(***************************************************************************)
\* select(Film).join(FilmAlias).where(FilmAlias.normalized_title == nt)
_check_alias(s, nt) ==
  LET hit == {f \in VFilms(s) :
                \E a \in VAliases(s) : a.normalized_title = nt /\ a.film_id = f.id}
  IN  IF hit = {} THEN None ELSE Some(CHOOSE f \in hit : TRUE)

\* the loop of _fuzzy_match over the films in the order the query returned them
RECURSIVE FuzzyScan(_, _, _, _, _)
FuzzyScan(nt, fs, i, best_score, best_film) ==
  IF i > Len(fs) THEN <<best_score, best_film>>
  ELSE LET score == ratio(lower(nt), lower(fs[i].title))
       IN  IF ScoreGT(score, best_score)
           THEN FuzzyScan(nt, fs, i + 1, score, Some(fs[i]))
           ELSE FuzzyScan(nt, fs, i + 1, best_score, best_film)

_fuzzy_match(nt, fs) ==
  IF fs = <<>> THEN None
  ELSE LET r == FuzzyScan(nt, fs, 1, <<0, 1>>, None)
       IN  IF ScoreGE(r[1], FUZZY_THRESHOLD) /\ r[2] # None THEN r[2] ELSE None

\* the orders in which a query without ORDER BY may return the rows of F
Orders(F) ==
  {q \in [1..Cardinality(F) -> F] : \A i, j \in 1..Cardinality(F) : i # j => q[i] # q[j]}

NoLoc ==
  [c |-> "", raw |-> <<>>, start |-> 0, nt |-> <<>>, film |-> None, fid |-> <<>>,
   path |-> "", exc |-> "", avail |-> FALSE, prev |-> None, n |-> 0, created |-> 0,
   p |-> None, real |-> <<>>, searches |-> 0, details |-> 0, found |-> FALSE,
   scan |-> <<>>]

NoJob == [kind |-> "none", dry |-> FALSE, todo |-> {}, results |-> {}, done |-> {},
          dup |-> FALSE,
          merges |-> {}, kept |-> 0, ok |-> TRUE]

CallRecord(s, res, path) ==
  [nt |-> loc[s].nt, path |-> path, avail |-> loc[s].avail, res |-> res]

\* match_or_create_film returns film to the scrape loop
CallReturns(s, film, path) ==
  /\ log' = log \cup {CallRecord(s, Some(film.id), path)}
  /\ loc' = [loc EXCEPT ![s].film = Some(film), ![s].path = path]
  /\ pc' = [pc EXCEPT ![s] = "existing"]

\* match_or_create_film raises; the scrape loop logs it and goes to the next showing
CallRaises(s, exc, path) ==
  /\ log' = log \cup {CallRecord(s, None, path)}
  /\ loc' = [loc EXCEPT ![s].film = None, ![s].path = path, ![s].exc = exc]
  /\ pc' = [pc EXCEPT ![s] = "next"]

\* stage 1 without its return: the call goes on to the fuzzy stage after an alias hit
MatchAliasFallThrough(s) ==
  /\ pc[s] = "m_alias"
  /\ IF sst[s] = "inactive"
     THEN CallRaises(s, "PendingRollbackError", "")
     ELSE /\ pc' = [pc EXCEPT ![s] = "m_fuzzy"]
          /\ UNCHANGED <<loc, log>>
  /\ UNCHANGED <<films, aliases, showings, tx, orm, sst, job, world, nops>>

\* stage 1
MatchAlias(s) ==
  /\ pc[s] = "m_alias"
  /\ IF sst[s] = "inactive"
     THEN CallRaises(s, "PendingRollbackError", "")
     ELSE IF _check_alias(s, loc[s].nt) # None
          THEN CallReturns(s, _check_alias(s, loc[s].nt)[1], "alias")
          ELSE /\ pc' = [pc EXCEPT ![s] = "m_fuzzy"]
               /\ UNCHANGED <<loc, log>>
  /\ UNCHANGED <<films, aliases, showings, tx, orm, sst, job, world, nops>>

\* stage 2
MatchFuzzy(s) ==
  /\ pc[s] = "m_fuzzy"
  /\ \E fs \in Orders(VFilms(s)) :
       IF _fuzzy_match(loc[s].nt, fs) # None
       THEN /\ loc' = [loc EXCEPT ![s].film = _fuzzy_match(loc[s].nt, fs), ![s].path = "fuzzy",
                               ![s].scan = fs]
            /\ pc' = [pc EXCEPT ![s] = "m_store"]
       ELSE /\ pc' = [pc EXCEPT ![s] = "m_create"]
            /\ UNCHANGED loc
  /\ UNCHANGED <<films, aliases, showings, tx, orm, sst, job, log, world, nops>>

\* stages 3 to 5: _create_from_tmdb, or _create_placeholder when it returns None;
\* both end in db.add(film); await db.flush() with "except IntegrityError: rollback"
MatchCreate(s) ==
  /\ pc[s] = "m_create"
  /\ \E lk \in Lookups(loc[s].nt) :
       LET ans == lk.details
           new == IF ans # None THEN FilmFromTmdb(ans[1]) ELSE PlaceholderFilm(loc[s].nt)
           path == IF ans # None THEN "tmdb" ELSE "placeholder"
           fl == Flush(VFilms(s), VAliases(s), VShowings(s), orm[s], {new}, {}, <<>>)
           called == [loc[s] EXCEPT !.searches = @ + 1,
                                    !.details = @ + (IF lk.search # None THEN 1 ELSE 0),
                                    !.found = ans # None]
       IN  /\ ~Blocked(s, FlushLocks(orm[s], {new}, {}, <<>>))
           /\ orm' = [orm EXCEPT ![s] = EmptyOrm]
           /\ IF fl.st = "ok"
              THEN /\ tx' = [tx EXCEPT ![s] = TxOf(fl.F, fl.A, fl.S)]
                   /\ loc' = [loc EXCEPT ![s] = [called EXCEPT !.film = Some(new),
                                                               !.path = path]]
                   /\ pc' = [pc EXCEPT ![s] = "m_store"]
                   /\ UNCHANGED <<sst, log>>
              ELSE IF fl.st = "integrity"
              THEN /\ tx' = [tx EXCEPT ![s] = EmptyTx]
                   /\ loc' = [loc EXCEPT ![s] = [called EXCEPT !.fid = new.id,
                                                               !.path = "recovered"]]
                   /\ pc' = [pc EXCEPT ![s] = "m_get"]
                   /\ UNCHANGED <<sst, log>>
              ELSE /\ tx' = [tx EXCEPT ![s] = EmptyTx]
                   /\ sst' = [sst EXCEPT ![s] = "inactive"]
                   /\ log' = log \cup {CallRecord(s, None, path)}
                   /\ loc' = [loc EXCEPT ![s] = [called EXCEPT !.film = None, !.path = path,
                                                               !.exc = "StaleDataError"]]
                   /\ pc' = [pc EXCEPT ![s] = "next"]
  /\ UNCHANGED <<films, aliases, showings, job, world, nops>>

\* MatchGet without the re-read: the IntegrityError is raised again
MatchGetReraise(s) ==
  /\ pc[s] = "m_get"
  /\ CallRaises(s, "IntegrityError", loc[s].path)
  /\ UNCHANGED <<films, aliases, showings, tx, orm, sst, job, world, nops>>

\* existing = await self.db.get(Film, film_id); return it, or re-raise
MatchGet(s) ==
  /\ pc[s] = "m_get"
  /\ IF \E f \in VFilms(s) : f.id = loc[s].fid
     THEN /\ loc' = [loc EXCEPT ![s].film = Some(CHOOSE f \in VFilms(s) : f.id = loc[s].fid)]
          /\ pc' = [pc EXCEPT ![s] = "m_store"]
          /\ UNCHANGED log
     ELSE CallRaises(s, "IntegrityError", loc[s].path)
  /\ UNCHANGED <<films, aliases, showings, tx, orm, sst, job, world, nops>>

\* _store_alias as an upsert: an existing alias is re-pointed to film_id
StoreAliasUpsert(s) ==
  /\ pc[s] = "m_store"
  /\ IF \E a \in VAliases(s) : a.normalized_title = loc[s].nt
     THEN /\ tx' = [tx EXCEPT ![s] =
                     TxOf(VFilms(s),
                          {a \in VAliases(s) : a.normalized_title # loc[s].nt}
                            \cup {AliasRow(loc[s].nt, loc[s].film[1].id)},
                          VShowings(s))]
          /\ CallReturns(s, loc[s].film[1], loc[s].path)
     ELSE /\ pc' = [pc EXCEPT ![s] = "m_store_ins"]
          /\ UNCHANGED <<tx, loc, log>>
  /\ UNCHANGED <<films, aliases, showings, orm, sst, job, world, nops>>

\* _store_alias: the select
StoreAliasSelect(s) ==
  /\ pc[s] = "m_store"
  /\ IF \E a \in VAliases(s) : a.normalized_title = loc[s].nt
     THEN CallReturns(s, loc[s].film[1], loc[s].path)
     ELSE /\ pc' = [pc EXCEPT ![s] = "m_store_ins"]
          /\ UNCHANGED <<loc, log>>
  /\ UNCHANGED <<films, aliases, showings, tx, orm, sst, job, world, nops>>

\* _store_alias that returns without adding the alias
StoreAliasSkip(s) ==
  /\ pc[s] = "m_store_ins"
  /\ CallReturns(s, loc[s].film[1], loc[s].path)
  /\ UNCHANGED <<films, aliases, showings, tx, orm, sst, job, world, nops>>

\* _store_alias: self.db.add(alias); await self.db.flush()
StoreAliasInsert(s) ==
  /\ pc[s] = "m_store_ins"
  /\ LET alias == AliasRow(loc[s].nt, loc[s].film[1].id)
         fl == Flush(VFilms(s), VAliases(s), VShowings(s), orm[s], {}, {alias}, <<>>)
     IN  /\ ~Blocked(s, FlushLocks(orm[s], {}, {alias}, <<>>))
         /\ orm' = [orm EXCEPT ![s] = EmptyOrm]
         /\ IF fl.st = "ok"
            THEN /\ tx' = [tx EXCEPT ![s] = TxOf(fl.F, fl.A, fl.S)]
                 /\ CallReturns(s, loc[s].film[1], loc[s].path)
                 /\ UNCHANGED sst
            ELSE /\ tx' = [tx EXCEPT ![s] = EmptyTx]
                 /\ sst' = [sst EXCEPT ![s] = "inactive"]
                 /\ CallRaises(s, IF fl.st = "integrity" THEN "IntegrityError"
                                  ELSE "StaleDataError", loc[s].path)
  /\ UNCHANGED <<films, aliases, showings, job, world, nops>>

(***************************************************************************)
(* Scrape jobs: trigger_scrape (api/routes/admin.py) and run_scrape_all    *)
(* (tasks/scrape_job.py).  Both walk the cinemas, and for each cinema the  *)
(* raw showings, with one session.                                         *)
(***************************************************************************)
\* outcome of await db.commit() in session s
CommitStatus(s) ==
  IF sst[s] = "inactive" THEN "pending"
  ELSE Flush(VFilms(s), VAliases(s), VShowings(s), orm[s], {}, {}, <<>>).st

\* await db.commit(); rolled_back: the caller calls db.rollback() when it fails
CommitApply(s, rolled_back) ==
  LET fl == Flush(VFilms(s), VAliases(s), VShowings(s), orm[s], {}, {}, <<>>)
  IN  /\ sst[s] = "active" => ~Blocked(s, FlushLocks(orm[s], {}, {}, <<>>))
      /\ IF CommitStatus(s) = "ok"
         THEN /\ films' = fl.F
              /\ aliases' = fl.A
              /\ showings' = fl.S
              /\ UNCHANGED sst
         ELSE /\ UNCHANGED <<films, aliases, showings>>
              /\ sst' = [sst EXCEPT ![s] = IF rolled_back THEN "active" ELSE "inactive"]
      /\ tx' = [tx EXCEPT ![s] = EmptyTx]
      /\ orm' = [orm EXCEPT ![s] = EmptyOrm]

RequestIds == {"c0", "c1", "c2", "c9"}

\* POST /admin/scrape: select the requested cinemas, 404 when none exists
StartTrigger(s) ==
  /\ pc[s] = "idle"
  /\ \E ids \in SUBSET RequestIds :
       LET cinemas == {c \in world.cinemas : c.id \in ids}
       IN  IF cinemas = {}
           THEN /\ pc' = [pc EXCEPT ![s] = "closed"]
                /\ UNCHANGED job
           ELSE /\ pc' = [pc EXCEPT ![s] = "cinema"]
                /\ job' = [job EXCEPT ![s] = [NoJob EXCEPT !.kind = "trigger", !.todo = cinemas]]
  /\ UNCHANGED <<films, aliases, showings, tx, orm, sst, loc, log, world, nops>>

\* run_scrape_all: select all cinemas
StartAll(s) ==
  /\ pc[s] = "idle"
  /\ pc' = [pc EXCEPT ![s] = "cinema"]
  /\ job' = [job EXCEPT ![s] = [NoJob EXCEPT !.kind = "all", !.todo = world.cinemas]]
  /\ UNCHANGED <<films, aliases, showings, tx, orm, sst, loc, log, world, nops>>

Result(c, success, created) == [cinema |-> c, success |-> success, created |-> created]

\* head of the per-cinema loop: get_scraper, scraper.get_showings, and the commit
\* that ends the read transaction before the showings are processed
ScrapeCinema(s) ==
  /\ pc[s] = "cinema"
  /\ IF job[s].todo = {}
     THEN /\ pc' = [pc EXCEPT ![s] = "done"]
          /\ UNCHANGED <<films, aliases, showings, tx, orm, sst, job, loc>>
     ELSE \E c \in job[s].todo :
            IF get_scraper(c.scraper_type) = None
            THEN /\ job' = [job EXCEPT ![s].todo = @ \ {c},
                                       ![s].results = @ \cup {Result(c.id, FALSE, 0)}]
                 /\ UNCHANGED <<films, aliases, showings, tx, orm, sst, pc, loc>>
            ELSE \E fetched \in BOOLEAN :
                   IF ~fetched
                   THEN /\ job' = [job EXCEPT ![s].todo = @ \ {c},
                                              ![s].results = @ \cup {Result(c.id, FALSE, 0)}]
                        /\ IF job[s].kind = "all"
                           THEN /\ tx' = [tx EXCEPT ![s] = EmptyTx]
                                /\ orm' = [orm EXCEPT ![s] = EmptyOrm]
                                /\ sst' = [sst EXCEPT ![s] = "active"]
                           ELSE UNCHANGED <<tx, orm, sst>>
                        /\ UNCHANGED <<films, aliases, showings, pc, loc>>
                   ELSE /\ CommitApply(s, CommitStatus(s) = "integrity" \/ job[s].kind = "all")
                        /\ IF CommitStatus(s) \in {"ok", "integrity"}
                           THEN /\ job' = [job EXCEPT ![s].todo = @ \ {c}, ![s].done = {},
                                                      ![s].dup = FALSE]
                                /\ loc' = [loc EXCEPT ![s] = [NoLoc EXCEPT !.c = c.id]]
                                /\ pc' = [pc EXCEPT ![s] = "next"]
                           ELSE /\ job' = [job EXCEPT ![s].todo = @ \ {c},
                                             ![s].results = @ \cup {Result(c.id, FALSE, 0)}]
                                /\ UNCHANGED <<pc, loc>>
  /\ UNCHANGED <<log, world, nops>>

\* what the match_or_create_film call for the current raw showing gave
Outcome(s) ==
  [raw |-> loc[s].raw,
   res |-> IF loc[s].film = None THEN None ELSE Some(loc[s].film[1].id)]

\* scraper.get_showings: a website that keeps its programme returns world.list on
\* every scrape; otherwise any list of up to world.batch showings is returned
Scripted == "list" \in DOMAIN world

ListEnds(s) == Scripted => loc[s].n >= Len(world.list)

NextRaw(s) ==
  IF Scripted
  THEN IF loc[s].n < Len(world.list) THEN {world.list[loc[s].n + 1]} ELSE {}
  ELSE IF loc[s].n < world.batch THEN world.titles \X world.times ELSE {}

\* head of the per-showing loop: the next RawShowing, or the end of the list
ScrapeNext(s) ==
  /\ pc[s] = "next"
  /\ \/ /\ ListEnds(s)
        /\ pc' = [pc EXCEPT ![s] = "commit"]
        /\ UNCHANGED loc
     \/ /\ \E rs \in NextRaw(s) :
             loc' = [loc EXCEPT ![s] = [NoLoc EXCEPT !.c = loc[s].c, !.n = loc[s].n + 1,
                                                     !.created = loc[s].created,
                                                     !.raw = rs[1], !.start = rs[2],
                                                     !.prev = IF loc[s].n = 0 THEN None
                                                              ELSE Some(Outcome(s)),
                                                     !.nt = normalise_title(rs[1]),
                                                     !.avail = Available(normalise_title(rs[1]))]]
        /\ pc' = [pc EXCEPT ![s] = "m_alias"]
  /\ UNCHANGED <<films, aliases, showings, tx, orm, sst, job, log, world, nops>>

NewShowing(s) == ShowingRow(loc[s].c, loc[s].film[1].id, loc[s].start, loc[s].raw)

\* select(Showing) on (cinema_id, film_id, start_time); update it when found
ScrapeExisting(s) ==
  /\ pc[s] = "existing"
  /\ LET hit == {r \in VShowings(s) : ShowKey(r) = ShowKey(NewShowing(s))}
     IN  IF hit # {}
         THEN LET r == CHOOSE x \in hit : TRUE
                  m == [MemShowing(s, r) EXCEPT !.raw_title = loc[s].raw]
              IN  /\ orm' = [orm EXCEPT ![s] = SetShowing(@, r, m)]
                  /\ job' = [job EXCEPT ![s].done = @ \cup {ShowKey(m)}]
                  /\ pc' = [pc EXCEPT ![s] = "next"]
         ELSE /\ pc' = [pc EXCEPT ![s] =
                   IF job[s].kind = "trigger" /\ loc[s].film[1].tmdb_id # None
                   THEN "placeholder" ELSE "insert"]
              /\ UNCHANGED <<orm, job>>
  /\ UNCHANGED <<films, aliases, showings, tx, sst, loc, log, world, nops>>

\* trigger_scrape only: a showing of a placeholder film at this cinema and time is
\* re-pointed to the matched film (scalar_one_or_none raises on several rows)
ScrapePlaceholder(s) ==
  /\ pc[s] = "placeholder"
  /\ LET hit == {r \in VShowings(s) :
                   /\ r.cinema_id = loc[s].c
                   /\ r.start_time = loc[s].start
                   /\ \E f \in VFilms(s) : f.id = r.film_id /\ f.tmdb_id = None}
     IN  IF Cardinality(hit) > 1
         THEN /\ pc' = [pc EXCEPT ![s] = "next"]
              /\ UNCHANGED <<orm, job>>
         ELSE IF Cardinality(hit) = 1
         THEN LET r == CHOOSE x \in hit : TRUE
                  m == [MemShowing(s, r) EXCEPT !.film_id = loc[s].film[1].id,
                                                !.raw_title = loc[s].raw]
              IN  /\ orm' = [orm EXCEPT ![s] = SetShowing(@, r, m)]
                  /\ job' = [job EXCEPT ![s].done = (@ \ {ShowKey(MemShowing(s, r))}) \cup {ShowKey(m)}]
                  /\ pc' = [pc EXCEPT ![s] = "next"]
         ELSE /\ pc' = [pc EXCEPT ![s] = "insert"]
              /\ UNCHANGED <<orm, job>>
  /\ UNCHANGED <<films, aliases, showings, tx, sst, loc, log, world, nops>>

\* trigger_scrape: async with db.begin_nested(): db.add(showing); await db.flush()
\* run_scrape_all: db.add(showing)
ScrapeInsert(s) ==
  /\ pc[s] = "insert"
  /\ IF job[s].kind = "all"
     THEN /\ orm' = [orm EXCEPT ![s].new = Append(@, NewShowing(s))]
          /\ job' = [job EXCEPT ![s].done = @ \cup {ShowKey(NewShowing(s))}]
          /\ loc' = [loc EXCEPT ![s].created = @ + 1]
          /\ UNCHANGED <<tx, sst>>
     ELSE LET pre == Flush(VFilms(s), VAliases(s), VShowings(s), orm[s], {}, {}, <<>>)
              ins == Flush(pre.F, pre.A, pre.S, EmptyOrm, {}, {}, <<NewShowing(s)>>)
          IN  /\ ~Blocked(s, FlushLocks(orm[s], {}, {}, <<NewShowing(s)>>))
              /\ orm' = [orm EXCEPT ![s] = EmptyOrm]
              /\ IF pre.st # "ok"
                 THEN /\ tx' = [tx EXCEPT ![s] = EmptyTx]
                      /\ sst' = [sst EXCEPT ![s] = "inactive"]
                      /\ UNCHANGED <<job, loc>>
                 ELSE IF ins.st = "ok"
                 THEN /\ tx' = [tx EXCEPT ![s] = TxOf(ins.F, ins.A, ins.S)]
                      /\ job' = [job EXCEPT ![s].done = @ \cup {ShowKey(NewShowing(s))}]
                      /\ loc' = [loc EXCEPT ![s].created = @ + 1]
                      /\ UNCHANGED sst
                 ELSE /\ tx' = [tx EXCEPT ![s] = TxOf(pre.F, pre.A, pre.S)]
                      /\ job' = [job EXCEPT ![s].dup = TRUE]
                      /\ UNCHANGED <<sst, loc>>
  /\ pc' = [pc EXCEPT ![s] = "next"]
  /\ UNCHANGED <<films, aliases, showings, log, world, nops>>

\* the commit that ends a cinema's batch
ScrapeCommit(s) ==
  /\ pc[s] = "commit"
  /\ CommitApply(s, CommitStatus(s) = "integrity" \/ job[s].kind = "all")
  /\ job' = [job EXCEPT ![s].results = @ \cup
               {Result(loc[s].c, CommitStatus(s) \in {"ok", "integrity"},
                       IF CommitStatus(s) \in {"ok", "integrity"} THEN loc[s].created ELSE 0)},
             ![s].ok = CommitStatus(s) = "ok"]
  /\ pc' = [pc EXCEPT ![s] = "cinema"]
  /\ UNCHANGED <<loc, log, world, nops>>

\* the job ends: get_db commits (trigger_scrape) or rolls back when the session
\* cannot commit; run_scrape_all leaves "async with AsyncSessionLocal()"
ScrapeDone(s) ==
  /\ pc[s] = "done"
  /\ IF job[s].kind = "trigger"
     THEN CommitApply(s, TRUE)
     ELSE /\ tx' = [tx EXCEPT ![s] = EmptyTx]
          /\ orm' = [orm EXCEPT ![s] = EmptyOrm]
          /\ sst' = [sst EXCEPT ![s] = "active"]
          /\ UNCHANGED <<films, aliases, showings>>
  /\ pc' = [pc EXCEPT ![s] = "closed"]
  /\ job' = [job EXCEPT ![s] = NoJob]
  /\ loc' = [loc EXCEPT ![s] = NoLoc]
  /\ UNCHANGED <<log, world, nops>>

\* the next request or run gets a session of its own (AsyncSessionLocal())
NewSession(s) ==
  /\ pc[s] = "closed"
  /\ nops < MaxOps
  /\ nops' = nops + 1
  /\ pc' = [pc EXCEPT ![s] = "idle"]
  /\ job' = [job EXCEPT ![s] = NoJob]
  /\ UNCHANGED <<films, aliases, showings, tx, orm, sst, loc, log, world>>

(***************************************************************************)
(* clean_placeholders (scripts/clean_placeholders.py)                      *)
(***************************************************************************)
\* select(Film).where(Film.tmdb_id.is_(None))
StartClean(s, dry_run) ==
  /\ pc[s] = "idle"
  /\ job' = [job EXCEPT ![s] = [NoJob EXCEPT !.kind = "clean", !.dry = dry_run,
                                            !.todo = {f \in VFilms(s) : f.tmdb_id = None}]]
  /\ pc' = [pc EXCEPT ![s] = "c_next"]
  /\ UNCHANGED <<films, aliases, showings, tx, orm, sst, loc, log, world, nops>>

\* RealAliases without the test Film.tmdb_id.is_not(None)
RealAliasesAnyFilm(s, placeholder) ==
  {a \in VAliases(s) :
     /\ a.normalized_title = normalise_title(placeholder.title)
     /\ a.film_id # placeholder.id
     /\ \E f \in VFilms(s) : f.id = a.film_id}

\* the alias of normalise_title(placeholder.title) on a different film with a tmdb_id
RealAliases(s, placeholder) ==
  {a \in VAliases(s) :
     /\ a.normalized_title = normalise_title(placeholder.title)
     /\ a.film_id # placeholder.id
     /\ \E f \in VFilms(s) : f.id = a.film_id /\ f.tmdb_id # None}

Merge(placeholder, real_film_id, S) ==
  [p |-> placeholder.id, real |-> real_film_id,
   slots |-> {<<r.cinema_id, r.start_time>> : r \in {x \in S : x.film_id = placeholder.id}},
   had |-> {<<r.cinema_id, r.start_time>> : r \in {x \in S : x.film_id = real_film_id}}]

\* CleanNext without the test of dry_run: the merge is carried out in a dry run too
CleanNextNoDry(s) ==
  /\ pc[s] = "c_next"
  /\ IF job[s].todo = {}
     THEN /\ pc' = [pc EXCEPT ![s] = "c_commit"]
          /\ UNCHANGED <<job, loc>>
     ELSE \E placeholder \in job[s].todo :
            IF RealAliases(s, placeholder) = {}
            THEN /\ job' = [job EXCEPT ![s].todo = @ \ {placeholder}, ![s].kept = @ + 1]
                 /\ UNCHANGED <<pc, loc>>
            ELSE LET real_film_id == (CHOOSE a \in RealAliases(s, placeholder) : TRUE).film_id
                 IN  /\ job' = [job EXCEPT ![s].todo = @ \ {placeholder}]
                     /\ loc' = [loc EXCEPT ![s] = [NoLoc EXCEPT !.p = Some(placeholder),
                                                             !.real = real_film_id]]
                     /\ pc' = [pc EXCEPT ![s] = "c_plan"]
  /\ UNCHANGED <<films, aliases, showings, tx, orm, sst, log, world, nops>>

\* head of the loop over the placeholders: keep, or (dry run) count, or merge
CleanNext(s) ==
  /\ pc[s] = "c_next"
  /\ IF job[s].todo = {}
     THEN /\ pc' = [pc EXCEPT ![s] = "c_commit"]
          /\ UNCHANGED <<job, loc>>
     ELSE \E placeholder \in job[s].todo :
            IF RealAliases(s, placeholder) = {}
            THEN /\ job' = [job EXCEPT ![s].todo = @ \ {placeholder}, ![s].kept = @ + 1]
                 /\ UNCHANGED <<pc, loc>>
            ELSE LET real_film_id == (CHOOSE a \in RealAliases(s, placeholder) : TRUE).film_id
                 IN  IF job[s].dry
                     THEN /\ job' = [job EXCEPT ![s].todo = @ \ {placeholder},
                                       ![s].merges = @ \cup
                                          {Merge(placeholder, real_film_id, VShowings(s))}]
                          /\ UNCHANGED <<pc, loc>>
                     ELSE /\ job' = [job EXCEPT ![s].todo = @ \ {placeholder}]
                          /\ loc' = [loc EXCEPT ![s] = [NoLoc EXCEPT !.p = Some(placeholder),
                                                                  !.real = real_film_id]]
                          /\ pc' = [pc EXCEPT ![s] = "c_plan"]
  /\ UNCHANGED <<films, aliases, showings, tx, orm, sst, log, world, nops>>

\* the two loops over the placeholder's showings and aliases: session.delete(row)
\* when the real film already has the row, row.film_id = real_film_id otherwise
CleanPlan(s) ==
  /\ pc[s] = "c_plan"
  /\ LET placeholder == loc[s].p[1]
         real_film_id == loc[s].real
         placeholder_showings == {r \in VShowings(s) : r.film_id = placeholder.id}
         sConflict(ps) == \E x \in VShowings(s) : /\ x.cinema_id = ps.cinema_id
                                                  /\ x.film_id = real_film_id
                                                  /\ x.start_time = ps.start_time
         stale_aliases == {a \in VAliases(s) : a.film_id = placeholder.id}
         aConflict(stale) == \E x \in VAliases(s) :
                               /\ x.normalized_title = stale.normalized_title
                               /\ x.film_id = real_film_id
         o == orm[s]
         moved == {<<ps, [MemShowing(s, ps) EXCEPT !.film_id = real_film_id]>> :
                     ps \in {r \in placeholder_showings : ~sConflict(r)}}
         amoved == {<<a, [a EXCEPT !.film_id = real_film_id]>> :
                     a \in {x \in stale_aliases : ~aConflict(x)}}
     IN  /\ orm' = [orm EXCEPT ![s] =
                      [o EXCEPT !.upd = {q \in @ : q[1] \notin placeholder_showings} \cup moved,
                                !.del = @ \cup {r \in placeholder_showings : sConflict(r)},
                                !.aupd = @ \cup amoved,
                                !.adel = @ \cup {a \in stale_aliases : aConflict(a)}]]
         /\ job' = [job EXCEPT ![s].merges = @ \cup
                      {Merge(placeholder, real_film_id, VShowings(s))}]
  /\ pc' = [pc EXCEPT ![s] = "c_delete"]
  /\ UNCHANGED <<films, aliases, showings, tx, sst, loc, log, world, nops>>

\* session.execute(delete(Film).where(Film.id == placeholder.id)); the foreign keys
\* of showings and film_aliases are ON DELETE CASCADE
CleanDelete(s) ==
  /\ pc[s] = "c_delete"
  /\ LET pid == loc[s].p[1].id
         S0 == {r \in VShowings(s) : r.film_id = pid}
         A0 == {a \in VAliases(s) : a.film_id = pid}
     IN  /\ ~Blocked(s, [NoLocks EXCEPT !.film = {pid}, !.delfilm = {pid},
                                        !.showing = {ShowKey(r) : r \in S0},
                                        !.alias = {a.normalized_title : a \in A0}])
         /\ tx' = [tx EXCEPT ![s] = TxOf({f \in VFilms(s) : f.id # pid},
                                         VAliases(s) \ A0, VShowings(s) \ S0)]
  /\ pc' = [pc EXCEPT ![s] = "c_next"]
  /\ UNCHANGED <<films, aliases, showings, orm, sst, job, loc, log, world, nops>>

\* if not dry_run: await session.commit(); the session is closed either way
CleanCommit(s) ==
  /\ pc[s] = "c_commit"
  /\ IF job[s].dry
     THEN /\ UNCHANGED <<films, aliases, showings>>
          /\ tx' = [tx EXCEPT ![s] = EmptyTx]
          /\ orm' = [orm EXCEPT ![s] = EmptyOrm]
          /\ UNCHANGED sst
     ELSE CommitApply(s, TRUE)
  /\ job' = [job EXCEPT ![s].kind = "cleaned",
                        ![s].ok = job[s].dry \/ CommitStatus(s) = "ok"]
  /\ pc' = [pc EXCEPT ![s] = "closed"]
  /\ loc' = [loc EXCEPT ![s] = NoLoc]
  /\ UNCHANGED <<log, world, nops>>

(***************************************************************************)
(* backfill (scripts/backfill_tmdb.py): one film of the list, updated and   *)
(* committed in a session of its own                                        *)
(***************************************************************************)
Backfill(film) ==
  /\ film \in films
  /\ film.year = None /\ ~film.meta
  /\ nops < MaxOps
  /\ nops' = nops + 1
  /\ \E ans \in (IF film.tmdb_id # None
                 THEN {None} \cup {Some(e) : e \in {x \in TmdbCatalog : x.id = film.tmdb_id[1]}}
                 ELSE Answers(film.title)) :
       IF ans = None
       THEN UNCHANGED films
       ELSE LET refreshed ==
                  [film EXCEPT !.year = _extract_year(ans[1].release_date),
                               !.meta = ans[1].meta,
                               !.tmdb_id = IF film.tmdb_id = None THEN Some(ans[1].id) ELSE @]
                w == [NoLocks EXCEPT !.film = {film.id},
                                     !.tmdb = IF film.tmdb_id = None THEN {Some(ans[1].id)} ELSE {}]
            IN  /\ \A t \in Sessions : ~Conflicts(w, Held(t))
                /\ IF ~ix_films_tmdb_id(films \ {film}, refreshed)
                   THEN UNCHANGED films
                   ELSE films' = (films \ {film}) \cup {refreshed}
  /\ UNCHANGED <<aliases, showings, tx, orm, sst, pc, job, loc, log, world>>

(***************************************************************************)
(* The system: sessions running scrape jobs and clean_placeholders on the   *)
(* shared store, and backfill                                               *)
(***************************************************************************)
\* two sessions at a time, each running one job on a store that earlier scrapes
\* have filled: the websites list up to RaceBatch showings starting at time 1
RaceWorld ==
  [free |-> TRUE, ans |-> [q \in Queries |-> None],
   cinemas |-> {c \in CinemaRows : c.id = "c1"},
   titles |-> {RawNosYear, RawNosf}, times |-> {1}, batch |-> RaceBatch]

Nosf == FilmRow(<<"n","o","s","f">>, <<"N","o","s","f">>, None, None, FALSE)
QaNos == FilmRow(<<"q","a","-","n","o","s">>, <<"Q","&","A",":"," ","N","o","s">>,
                 None, None, FALSE)
Nos2024 == FilmRow(<<"n","o","s","-","2","0","2","4">>, <<"N","o","s">>, Some(2024),
                   Some(7), TRUE)

\* stores that scrapes of an earlier day (start time 2) leave behind
Stores ==
  { [films |-> {}, aliases |-> {}, showings |-> {}],
    [films |-> {Nosf},
     aliases |-> {AliasRow(normalise_title(RawNosf), Nosf.id)},
     showings |-> {ShowingRow("c1", Nosf.id, 2, RawNosf)}],
    [films |-> {QaNos, Nos2024},
     aliases |-> {AliasRow(normalise_title(RawRohQa), QaNos.id),
                  AliasRow(normalise_title(RawNosYear), Nos2024.id)},
     showings |-> {ShowingRow("c1", QaNos.id, 2, RawRohQa),
                   ShowingRow("c1", Nos2024.id, 2, RawNosYear)}] }

Init ==
  /\ \E st \in Stores : /\ films = st.films
                        /\ aliases = st.aliases
                        /\ showings = st.showings
  /\ tx = [s \in Sessions |-> EmptyTx]
  /\ orm = [s \in Sessions |-> EmptyOrm]
  /\ sst = [s \in Sessions |-> "active"]
  /\ pc = [s \in Sessions |-> "idle"]
  /\ job = [s \in Sessions |-> NoJob]
  /\ loc = [s \in Sessions |-> NoLoc]
  /\ log = {}
  /\ world = RaceWorld
  /\ nops = 0

Next ==
  \/ \E s \in Sessions : StartTrigger(s)
  \/ \E s \in Sessions : StartAll(s)
  \/ \E s \in Sessions : ScrapeCinema(s)
  \/ \E s \in Sessions : ScrapeNext(s)
  \/ \E s \in Sessions : MatchAlias(s)
  \/ \E s \in Sessions : MatchFuzzy(s)
  \/ \E s \in Sessions : MatchCreate(s)
  \/ \E s \in Sessions : MatchGet(s)
  \/ \E s \in Sessions : StoreAliasSelect(s)
  \/ \E s \in Sessions : StoreAliasInsert(s)
  \/ \E s \in Sessions : ScrapeExisting(s)
  \/ \E s \in Sessions : ScrapePlaceholder(s)
  \/ \E s \in Sessions : ScrapeInsert(s)
  \/ \E s \in Sessions : ScrapeCommit(s)
  \/ \E s \in Sessions : ScrapeDone(s)
  \/ \E s \in Sessions, dry_run \in BOOLEAN : StartClean(s, dry_run)
  \/ \E s \in Sessions : CleanNext(s)
  \/ \E s \in Sessions : CleanPlan(s)
  \/ \E s \in Sessions : CleanDelete(s)
  \/ \E s \in Sessions : CleanCommit(s)
  \/ \E film \in films : Backfill(film)

Spec == Init /\ [][Next]_vars

(***************************************************************************)
(* One process at a time: the jobs of a single session, backfill, and TMDb  *)
(* adding a film to its database                                            *)
(***************************************************************************)
\* TMDb gets the films of the catalogue, or its API key is configured: from now
\* on a search may match
TmdbPublish ==
  /\ ~world.free
  /\ world' = [world EXCEPT !.free = TRUE]
  /\ UNCHANGED <<films, aliases, showings, tx, orm, sst, pc, job, loc, log, nops>>

SeqWorld ==
  [free |-> FALSE, ans |-> [q \in Queries |-> None],
   cinemas |-> {c \in CinemaRows : c.id = "c1"},
   titles |-> RawTitles, times |-> {1}, batch |-> MaxBatch]

InitSeq ==
  /\ \E st \in {x \in Stores : Nos2024 \notin x.films} : /\ films = st.films
                                                         /\ aliases = st.aliases
                                                         /\ showings = st.showings
  /\ tx = [s \in Sessions |-> EmptyTx]
  /\ orm = [s \in Sessions |-> EmptyOrm]
  /\ sst = [s \in Sessions |-> "active"]
  /\ pc = [s \in Sessions |-> "idle"]
  /\ job = [s \in Sessions |-> NoJob]
  /\ loc = [s \in Sessions |-> NoLoc]
  /\ log = {}
  /\ world = SeqWorld
  /\ nops = 0

NextSeq ==
  \/ StartTrigger("s1")
  \/ StartAll("s1")
  \/ ScrapeCinema("s1")
  \/ ScrapeNext("s1")
  \/ MatchAlias("s1")
  \/ MatchFuzzy("s1")
  \/ MatchCreate("s1")
  \/ MatchGet("s1")
  \/ StoreAliasSelect("s1")
  \/ StoreAliasInsert("s1")
  \/ ScrapeExisting("s1")
  \/ ScrapePlaceholder("s1")
  \/ ScrapeInsert("s1")
  \/ ScrapeCommit("s1")
  \/ ScrapeDone("s1")
  \/ NewSession("s1")
  \/ \E dry_run \in BOOLEAN : StartClean("s1", dry_run)
  \/ CleanNext("s1")
  \/ CleanPlan("s1")
  \/ CleanDelete("s1")
  \/ CleanCommit("s1")
  \/ \E film \in films : Backfill(film)
  \/ TmdbPublish

SpecSeq == InitSeq /\ [][NextSeq]_vars

(***************************************************************************)
(* Concurrent callers with one raw title and one TMDb answer: the sessions  *)
(* scrape a website that lists a single title, unknown to the empty store,  *)
(* and TMDb gives every call the same answer                                *)
(***************************************************************************)
SameWorlds ==
  { [free |-> FALSE, ans |-> [q \in Queries |-> a],
     cinemas |-> {c \in CinemaRows : c.id = "c1"},
     titles |-> {raw}, times |-> {1}, batch |-> RaceBatch] :
       raw \in RawTitles, a \in TmdbAnswers }

InitSame ==
  /\ films = {}
  /\ aliases = {}
  /\ showings = {}
  /\ tx = [s \in Sessions |-> EmptyTx]
  /\ orm = [s \in Sessions |-> EmptyOrm]
  /\ sst = [s \in Sessions |-> "active"]
  /\ pc = [s \in Sessions |-> "idle"]
  /\ job = [s \in Sessions |-> NoJob]
  /\ loc = [s \in Sessions |-> NoLoc]
  /\ log = {}
  /\ world \in SameWorlds
  /\ nops = 0

NextSame ==
  \/ \E s \in Sessions : StartTrigger(s)
  \/ \E s \in Sessions : StartAll(s)
  \/ \E s \in Sessions : ScrapeCinema(s)
  \/ \E s \in Sessions : ScrapeNext(s)
  \/ \E s \in Sessions : MatchAlias(s)
  \/ \E s \in Sessions : MatchFuzzy(s)
  \/ \E s \in Sessions : MatchCreate(s)
  \/ \E s \in Sessions : MatchGet(s)
  \/ \E s \in Sessions : StoreAliasSelect(s)
  \/ \E s \in Sessions : StoreAliasInsert(s)
  \/ \E s \in Sessions : ScrapeExisting(s)
  \/ \E s \in Sessions : ScrapePlaceholder(s)
  \/ \E s \in Sessions : ScrapeInsert(s)
  \/ \E s \in Sessions : ScrapeCommit(s)
  \/ \E s \in Sessions : ScrapeDone(s)
  \/ \E s \in Sessions : NewSession(s)

SpecSame == InitSame /\ [][NextSame]_vars

(***************************************************************************)
(* C1: concurrent callers of match_or_create_film with the same unseen raw  *)
(* title and the same TMDb answer all return, and all return a film with    *)
(* the same id, under every interleaving (SpecSame).                        *)
(***************************************************************************)
C1_SameFilm ==
  \A r1, r2 \in log : r1.nt = r2.nt => r1.res # None /\ r1.res = r2.res

\* one caller created the film, another ran into the IntegrityError and recovered
C1_Witness ==
  \E r1, r2 \in log : /\ r1.path \in {"tmdb", "placeholder"}
                      /\ r2.path = "recovered"
                      /\ r1.res # None
                      /\ r1.res = r2.res

(***************************************************************************)
(* C2: whatever TMDb answers to the individual calls, concurrent or         *)
(* repeated match_or_create_film calls with the same unseen raw title       *)
(* leave one Film row created for that title: the store never holds two     *)
(* films created for the same normalized title (Spec).                      *)
(***************************************************************************)
CreatedBy(r) ==
  IF r.path \in {"tmdb", "placeholder"} /\ r.res # None
  THEN {f \in films : f.id = r.res[1]} ELSE {}

C2_OneFilmPerTitle ==
  \A r1, r2 \in log :
    r1.nt = r2.nt => \A f1 \in CreatedBy(r1), f2 \in CreatedBy(r2) : f1.id = f2.id

(***************************************************************************)
(* C3: match_or_create_film returns a film and raises nothing, for every    *)
(* raw title, every TMDb answer and every store state that scrapes,         *)
(* backfill and clean_placeholders and their interleavings reach; a         *)
(* uniqueness violation on the film or alias insert never reaches the       *)
(* caller (Spec).                                                           *)
(***************************************************************************)
C3_NeverRaises == \A r \in log : r.res # None

(***************************************************************************)
(* C4: two match_or_create_film calls in sequence with the same raw title   *)
(* return the same film id, and after the second call one FilmAlias row     *)
(* exists for the normalised title (SpecSeq).                               *)
(***************************************************************************)
JustReturned(s) == pc[s] = "existing"

JustRaised(s) == pc[s] = "next" /\ loc[s].n > 0 /\ loc[s].film = None

C4_TwiceSame ==
  \A s \in Sessions :
    /\ JustReturned(s) \/ JustRaised(s)
    /\ loc[s].prev # None
    /\ loc[s].prev[1].raw = loc[s].raw
    => /\ Outcome(s).res # None
       /\ Outcome(s).res = loc[s].prev[1].res
       /\ Cardinality({a \in VAliases(s) : a.normalized_title = loc[s].nt}) = 1

(***************************************************************************)
(* C5: in every reachable state, under any interleaving of concurrent       *)
(* match_or_create_film calls and clean_placeholders runs, at most one      *)
(* FilmAlias row exists per normalized_title, in the committed table and in *)
(* what each session sees (Spec).                                           *)
(***************************************************************************)
OneAliasPerTitle(A) ==
  \A a1, a2 \in A : a1.normalized_title = a2.normalized_title => a1 = a2

C5_AliasUnique ==
  /\ OneAliasPerTitle(aliases)
  /\ \A s \in Sessions : OneAliasPerTitle(VAliases(s))

\* a caller lost the race for the alias of its title: its insert was refused
C5_Witness ==
  \E s \in Sessions :
    /\ JustRaised(s)
    /\ loc[s].exc = "IntegrityError"
    /\ loc[s].path # "recovered"
    /\ \E a \in aliases : a.normalized_title = loc[s].nt

(***************************************************************************)
(* C6: in every committed state reached by any sequence or interleaving of  *)
(* trigger_scrape, run_scrape_all and clean_placeholders runs, no two       *)
(* Showing rows have the same (cinema_id, film_id, start_time) (Spec).      *)
(***************************************************************************)
C6_ShowingUnique ==
  \A r1, r2 \in showings : ShowKey(r1) = ShowKey(r2) => r1 = r2

\* a run_scrape_all batch whose commit was refused while the store holds a showing
\* of the batch's cinema and start time
C6_Witness ==
  \E s \in Sessions :
    /\ job[s].kind = "all"
    /\ pc[s] = "cinema"
    /\ ~job[s].ok
    /\ loc[s].created > 0
    /\ \E r \in showings : r.cinema_id = loc[s].c /\ r.start_time = loc[s].start

(***************************************************************************)
(* C7: in a cinema's batch, in trigger_scrape and in run_scrape_all, a      *)
(* showing insert that fails on a constraint is skipped without undoing the *)
(* rest: every showing the batch inserted or updated is in the store after  *)
(* the batch commit (SpecSeq).                                              *)
(***************************************************************************)
C7_BatchKeepsRest ==
  [][\A s \in Sessions :
       /\ pc[s] = "commit"
       /\ pc'[s] = "cinema"
       /\ job[s].dup \/ CommitStatus(s) = "integrity"
       => \A k \in job[s].done : \E r \in showings' : ShowKey(r) = k]_vars

(***************************************************************************)
(* C8: when the flush of a newly built film raises IntegrityError inside    *)
(* match_or_create_film, the call returns the Film row that exists with     *)
(* that id and the recovery discards nothing that is pending in the caller's *)
(* session: the films, aliases and showings added earlier in the batch are  *)
(* still there (SpecSeq).                                                   *)
(***************************************************************************)
C8_RecoveryKeepsPending ==
  [][\A s \in Sessions :
       /\ pc[s] = "m_create" /\ pc'[s] = "m_get"
          => /\ tx[s].fIns \subseteq tx'[s].fIns
             /\ tx[s].aIns \subseteq tx'[s].aIns
             /\ tx[s].sIns \subseteq tx'[s].sIns
             /\ Range(orm[s].new) \subseteq tx'[s].sIns \cup Range(orm'[s].new)
       /\ pc[s] = "m_get" /\ pc'[s] # "m_get" /\ (\E f \in films : f.id = loc[s].fid)
          => /\ loc'[s].film # None
             /\ loc'[s].film[1].id = loc[s].fid]_vars

(***************************************************************************)
(* C9: if match_or_create_film created the placeholder film P for the       *)
(* normalized title X because TMDb found nothing, and X is resolved again   *)
(* later (the call gets P through the alias) at a time when TMDb would      *)
(* match, then a following clean_placeholders(dry_run=False) merges P into  *)
(* the real film: when the run has committed, P's Film row is gone and no   *)
(* showing is left on P (SpecSeq).                                          *)
(***************************************************************************)
ResolvedAgain(P) ==
  \E r1, r2 \in log :
    /\ r1.path = "placeholder" /\ r1.res = Some(P)
    /\ r2.nt = r1.nt /\ r2.path = "alias" /\ r2.res = Some(P)
    /\ r2.avail

C9_PlaceholderMerged ==
  [][\A s \in Sessions :
       /\ pc[s] = "c_commit"
       /\ pc'[s] = "closed"
       /\ ~job[s].dry
       => \A P \in Ids({f \in films : f.tmdb_id = None}) :
            ResolvedAgain(P) => /\ P \notin Ids(films')
                                /\ \A r \in showings' : r.film_id # P]_vars

(***************************************************************************)
(* C10: after clean_placeholders(dry_run=False) has merged placeholder P   *)
(* into real film R and run its commit, no showing references P, and at    *)
(* every (cinema, start_time) where P had a showing R has exactly one       *)
(* showing.  Stated on the commit step of the run, for every merge the run  *)
(* made (several placeholders may merge into the same R).                   *)
(***************************************************************************)
ShowingsAt(S, film_id, slot) ==
  {r \in S : r.film_id = film_id /\ <<r.cinema_id, r.start_time>> = slot}

C10_MergePostcondition ==
  [][\A s \in Sessions :
       (pc[s] = "c_commit" /\ pc'[s] = "closed" /\ ~job[s].dry)
       => \A m \in job[s].merges :
            /\ \A r \in showings' : r.film_id # m.p
            /\ \A slot \in m.slots : Cardinality(ShowingsAt(showings', m.real, slot)) = 1]_vars

(***************************************************************************)
(* C11: after clean_placeholders(dry_run=False) has merged placeholder P   *)
(* into real film R and run its commit, no alias references P, and every   *)
(* normalized title whose alias pointed to P before the run has an alias   *)
(* that points to R.                                                       *)
(***************************************************************************)
AliasTitlesOf(A, film_id) == {a.normalized_title : a \in {x \in A : x.film_id = film_id}}

C11_AliasesFollowMerge ==
  [][\A s \in Sessions :
       (pc[s] = "c_commit" /\ pc'[s] = "closed" /\ ~job[s].dry)
       => \A m \in job[s].merges :
            /\ AliasTitlesOf(aliases', m.p) = {}
            /\ AliasTitlesOf(aliases, m.p) \subseteq AliasTitlesOf(aliases', m.real)]_vars

(***************************************************************************)
(* C12: clean_placeholders keeps a placeholder film for which no alias of  *)
(* normalise_title(placeholder.title) points to a different film with a    *)
(* tmdb_id: the step that visits it counts it as kept and leaves nothing   *)
(* pending for it, and the commit of the run leaves the film, its showings *)
(* and its aliases in the store as they were.                              *)
(***************************************************************************)
HasRealAlias(F, A, placeholder) ==
  \E a \in A : /\ a.normalized_title = normalise_title(placeholder.title)
               /\ a.film_id # placeholder.id
               /\ \E f \in F : f.id = a.film_id /\ f.tmdb_id # None

RowsOf(A, S, film_id) ==
  <<{a \in A : a.film_id = film_id}, {r \in S : r.film_id = film_id}>>

C12_KeptUntouched ==
  [][\A s \in Sessions :
       /\ \A placeholder \in job[s].todo :
            (/\ pc[s] = "c_next"
             /\ placeholder \notin job'[s].todo
             /\ ~HasRealAlias(VFilms(s), VAliases(s), placeholder))
            => /\ job'[s].kept = job[s].kept + 1
               /\ job'[s].merges = job[s].merges
               /\ pc'[s] = "c_next"
               /\ tx'[s] = tx[s] /\ orm'[s] = orm[s]
       /\ (pc[s] = "c_commit" /\ pc'[s] = "closed")
          => \A f \in films :
               (f.tmdb_id = None /\ ~HasRealAlias(films, aliases, f))
               => /\ f \in films'
                  /\ RowsOf(aliases', showings', f.id) = RowsOf(aliases, showings, f.id)]_vars

C12_Witness ==
  \E s \in Sessions :
    /\ job[s].kind = "cleaned" /\ ~job[s].dry /\ job[s].kept > 0
    /\ \E f \in films : /\ f.tmdb_id = None
                        /\ ~HasRealAlias(films, aliases, f)
                        /\ RowsOf(aliases, showings, f.id) # <<{}, {}>>

(***************************************************************************)
(* C13: clean_placeholders(dry_run=True) changes no Film, FilmAlias or     *)
(* Showing row: no step of a dry run changes the store, and none leaves a  *)
(* change pending in the session of the run.                               *)
(***************************************************************************)
C13_DryRunNoChange ==
  [][\A s \in Sessions :
       (job[s].kind = "clean" /\ job[s].dry /\ (pc'[s] # pc[s] \/ job'[s] # job[s]))
       => /\ films' = films /\ aliases' = aliases /\ showings' = showings
          /\ tx'[s] = EmptyTx /\ orm'[s] = EmptyOrm]_vars

C13_Witness ==
  \E s \in Sessions :
    /\ job[s].kind = "cleaned" /\ job[s].dry
    /\ \E m \in job[s].merges :
         /\ m.p \in Ids(films)
         /\ \E r \in showings : r.film_id = m.p
         /\ \E a \in aliases : a.film_id = m.p

(***************************************************************************)
(* A run over several cinemas: two sessions, each scraping the cinemas c1  *)
(* and c2 (known scraper types) and c9 (unknown type) in any order; a      *)
(* website lists one raw showing, and any fetch may raise                  *)
(***************************************************************************)
RunWorld ==
  [free |-> TRUE, ans |-> [q \in Queries |-> None],
   cinemas |-> CinemaRows,
   titles |-> {RawNosf}, times |-> {1}, batch |-> RaceBatch]

InitRun ==
  /\ films = {}
  /\ aliases = {}
  /\ showings = {}
  /\ tx = [s \in Sessions |-> EmptyTx]
  /\ orm = [s \in Sessions |-> EmptyOrm]
  /\ sst = [s \in Sessions |-> "active"]
  /\ pc = [s \in Sessions |-> "idle"]
  /\ job = [s \in Sessions |-> NoJob]
  /\ loc = [s \in Sessions |-> NoLoc]
  /\ log = {}
  /\ world = RunWorld
  /\ nops = 0

NextRun ==
  \/ StartTrigger("s1")
  \/ StartAll("s2")
  \/ \E s \in Sessions : ScrapeCinema(s)
  \/ \E s \in Sessions : ScrapeNext(s)
  \/ \E s \in Sessions : MatchAlias(s)
  \/ \E s \in Sessions : MatchFuzzy(s)
  \/ \E s \in Sessions : MatchCreate(s)
  \/ \E s \in Sessions : MatchGet(s)
  \/ \E s \in Sessions : StoreAliasSelect(s)
  \/ \E s \in Sessions : StoreAliasInsert(s)
  \/ \E s \in Sessions : ScrapeExisting(s)
  \/ \E s \in Sessions : ScrapePlaceholder(s)
  \/ \E s \in Sessions : ScrapeInsert(s)
  \/ \E s \in Sessions : ScrapeCommit(s)
  \/ \E s \in Sessions : ScrapeDone(s)

SpecRun == InitRun /\ [][NextRun]_vars

(***************************************************************************)
(* C14: a cinema that fails (unknown scraper type, or an exception while   *)
(* it is scraped) is recorded as failed and does not stop the run: when    *)
(* the run takes its next cinema, the session can still scrape it, so a    *)
(* cinema with a known scraper type whose website answers is processed and *)
(* committed whatever happened to the cinemas before it.                   *)
(***************************************************************************)
ScraperTypeOf(cinema_id) == (CHOOSE c \in CinemaRows : c.id = cinema_id).scraper_type

C14_FailureIsolated ==
  \A s \in Sessions :
    job[s].kind \in {"trigger", "all"} =>
      /\ \A r \in job[s].results :
           get_scraper(ScraperTypeOf(r.cinema)) = None => ~r.success /\ r.created = 0
      /\ (/\ pc[s] = "cinema"
          /\ \E c \in job[s].todo : get_scraper(c.scraper_type) # None)
         => CommitStatus(s) \in {"ok", "integrity"}

(***************************************************************************)
(* C15: when neither the alias lookup nor the fuzzy match hits and the     *)
(* TMDb lookup finds nothing (search_film or get_film_details returns      *)
(* None), match_or_create_film returns a placeholder film with tmdb_id     *)
(* null, and one call invokes search_film at most once and                 *)
(* get_film_details at most once.                                          *)
(***************************************************************************)
LookupFailed(s) == loc[s].searches > 0 /\ ~loc[s].found

C15_PlaceholderOnLookupFailure ==
  \A s \in Sessions :
    /\ loc[s].searches <= 1
    /\ loc[s].details <= 1
    /\ ((JustReturned(s) \/ JustRaised(s)) /\ LookupFailed(s))
       => /\ loc[s].film # None
          /\ loc[s].film[1].tmdb_id = None

(***************************************************************************)
(* C16: _store_alias leaves the store unchanged when an alias for the      *)
(* normalized title already exists (the alias keeps its film_id, no row is *)
(* added), so no step of match_or_create_film changes the film that an     *)
(* existing alias points to.                                               *)
(***************************************************************************)
MatcherSteps == {"m_alias", "m_fuzzy", "m_create", "m_get", "m_store", "m_store_ins"}

C16_AliasFirstWriterWins ==
  [][\A s \in Sessions :
       (pc[s] \in MatcherSteps /\ pc'[s] # pc[s])
       => /\ aliases' = aliases
          /\ \A a \in VAliases(s) : \A b \in VAliases(s)' :
               b.normalized_title = a.normalized_title => b.film_id = a.film_id
          /\ (pc[s] = "m_store" /\ \E a \in VAliases(s) : a.normalized_title = loc[s].nt)
             => VAliases(s)' = VAliases(s)]_vars

C16_Witness ==
  \E r \in log :
    /\ r.path \in {"fuzzy", "tmdb", "placeholder", "recovered"}
    /\ r.res # None
    /\ \E a \in aliases : a.normalized_title = r.nt /\ a.film_id # r.res[1]

(***************************************************************************)
(* Raw titles with a common normal form, resolved one after the other by   *)
(* the jobs of a single session                                            *)
(***************************************************************************)
RawPreviewNos ==
  <<"P","r","e","v","i","e","w",":"," ","N","o","s"," ","[","3","5","m","m","]"," ","(","2","0","2","4",")">>

RawRohQaYear == <<"R","O","H",":"," ","Q","&","A",":"," ","N","o","s"," ","(","2","0","2","4",")">>

PairTitles == {RawNosYear, RawPreviewNos, RawRohQa, RawRohQaYear}

PairWorld ==
  [free |-> FALSE, ans |-> [q \in Queries |-> None],
   cinemas |-> {c \in CinemaRows : c.id = "c1"},
   titles |-> PairTitles, times |-> {1}, batch |-> MaxBatch]

InitPair ==
  /\ \E st \in {x \in Stores : Nos2024 \notin x.films} : /\ films = st.films
                                                         /\ aliases = st.aliases
                                                         /\ showings = st.showings
  /\ tx = [s \in Sessions |-> EmptyTx]
  /\ orm = [s \in Sessions |-> EmptyOrm]
  /\ sst = [s \in Sessions |-> "active"]
  /\ pc = [s \in Sessions |-> "idle"]
  /\ job = [s \in Sessions |-> NoJob]
  /\ loc = [s \in Sessions |-> NoLoc]
  /\ log = {}
  /\ world = PairWorld
  /\ nops = 0

SpecPair == InitPair /\ [][NextSeq]_vars

(***************************************************************************)
(* C17: two raw titles with the same normalised form, resolved one after   *)
(* the other by match_or_create_film, get the same film id, in either      *)
(* order, and the two calls create one film in total.                      *)
(***************************************************************************)
SameNormalForm(raw1, raw2) == raw1 # raw2 /\ normalise_title(raw1) = normalise_title(raw2)

C17_SameNormalFormSameFilm ==
  \A s \in Sessions :
    /\ JustReturned(s) \/ JustRaised(s)
    /\ loc[s].prev # None
    /\ SameNormalForm(loc[s].prev[1].raw, loc[s].raw)
    => /\ Outcome(s).res # None
       /\ Outcome(s).res = loc[s].prev[1].res
       /\ Cardinality(tx[s].fIns) <= 1

(***************************************************************************)
(* The fuzzy stage at its threshold: stores with films whose titles score  *)
(* 85 and 84 against the titles a website lists, scraped by the jobs of a  *)
(* single session                                                          *)
(***************************************************************************)
TitlePhantomCity == <<"N","o","s","f","e","r","a","t","u",":"," ","P","h","a","n","t","o","m"," ","C","i","t","y">>

TitleVampyreSpecial == <<"N","o","s","f","e","r","a","t","u"," ","t","h","e"," ","V","a","m","p","y","r","e"," ","S","p","e","c","i","a","l">>

\* fuzz.ratio with "Nosferatu: Phantom City" is 200 * 17 / 40 = 85
RawPhantom == <<"N","o","s","f","e","r","a","t","u"," ","P","h","a","n","t","o","m">>

\* fuzz.ratio with "Nosferatu the Vampyre Special" is 200 * 21 / 50 = 84
RawVampyre == <<"N","o","s","f","e","r","a","t","u"," ","t","h","e"," ","V","a","m","p","y","r","e">>

PhantomCity == FilmRow(_generate_film_id(TitlePhantomCity, None), TitlePhantomCity, None, None, FALSE)

VampyreSpecial ==
  FilmRow(_generate_film_id(TitleVampyreSpecial, None), TitleVampyreSpecial, None, None, FALSE)

FuzzyStores ==
  { [films |-> F,
     aliases |-> {AliasRow(normalise_title(f.title), f.id) : f \in F},
     showings |-> {ShowingRow("c1", f.id, 2, f.title) : f \in F}] :
       F \in {{PhantomCity, VampyreSpecial}} }

FuzzyWorld ==
  [free |-> TRUE, ans |-> [q \in Queries |-> None],
   cinemas |-> {c \in CinemaRows : c.id = "c1"},
   titles |-> {RawPhantom, RawVampyre}, times |-> {1}, batch |-> MaxBatch]

InitFuzzy ==
  /\ \E st \in FuzzyStores : /\ films = st.films
                             /\ aliases = st.aliases
                             /\ showings = st.showings
  /\ tx = [s \in Sessions |-> EmptyTx]
  /\ orm = [s \in Sessions |-> EmptyOrm]
  /\ sst = [s \in Sessions |-> "active"]
  /\ pc = [s \in Sessions |-> "idle"]
  /\ job = [s \in Sessions |-> NoJob]
  /\ loc = [s \in Sessions |-> NoLoc]
  /\ log = {}
  /\ world = FuzzyWorld
  /\ nops = 0

NextFuzzy ==
  \/ StartTrigger("s1")
  \/ ScrapeCinema("s1")
  \/ ScrapeNext("s1")
  \/ MatchAlias("s1")
  \/ MatchFuzzy("s1")
  \/ MatchCreate("s1")
  \/ StoreAliasSelect("s1")
  \/ StoreAliasInsert("s1")
  \/ ScrapeExisting("s1")
  \/ ScrapePlaceholder("s1")
  \/ ScrapeInsert("s1")
  \/ ScrapeCommit("s1")
  \/ ScrapeDone("s1")
  \/ NewSession("s1")

SpecFuzzy == InitFuzzy /\ [][NextFuzzy]_vars

(***************************************************************************)
(* C18: _fuzzy_match returns the best-scoring film exactly when its        *)
(* similarity score is at least 85: a best score of 85 returns that film,  *)
(* a best score of 84 returns None.                                        *)
(***************************************************************************)
Scores(nt, F) == {ratio(lower(nt), lower(f.title)) : f \in F}

IsBest(x, X) == \A y \in X : ~ScoreGT(y, x)

C18_ThresholdBoundary ==
  [][\A s \in Sessions :
       (pc[s] = "m_fuzzy" /\ pc'[s] # "m_fuzzy")
       => LET X == Scores(loc[s].nt, VFilms(s))
          IN  IF \E x \in X : IsBest(x, X) /\ x[1] >= 85 * x[2]
              THEN /\ pc'[s] = "m_store"
                   /\ loc'[s].film # None
                   /\ loc'[s].film[1] \in VFilms(s)
                   /\ IsBest(ratio(lower(loc[s].nt), lower(loc'[s].film[1].title)), X)
              ELSE /\ pc'[s] = "m_create"
                   /\ loc'[s].film = None]_vars

ExactScore(nt, title, n) ==
  LET x == ratio(lower(nt), lower(title)) IN x[1] = n * x[2]

\* a call returned the film that scores exactly 85, and another call whose best
\* candidate scored exactly 84 went on to the TMDb stage
C18_Witness ==
  /\ \E r \in log : /\ r.path = "fuzzy"
                    /\ r.res = Some(PhantomCity.id)
                    /\ ExactScore(r.nt, PhantomCity.title, 85)
  /\ \E r \in log : /\ r.path \in {"tmdb", "placeholder"}
                    /\ VampyreSpecial \in films
                    /\ ExactScore(r.nt, VampyreSpecial.title, 84)

(***************************************************************************)
(* Title variants: a title with a trailing year or year range, a square-   *)
(* bracket tag and a known prefix added, listed by a website and           *)
(* normalised by the scrape of a single session                           *)
(***************************************************************************)
BaseTitle == <<"N","o","s">>

YearSuffix == <<" ","(","2","0","2","4",")">>

YearRangeSuffix == <<" ","(","2","0","2","4","-","2","5",")">>

BracketTag == <<" ","[","3","5","m","m","]">>

\* "Preview: ", "Q&A: " and "ROH: "
KnownPrefixes == {prefixes[k] \o <<" ">> : k \in {1, 6, 9}}

\* what may follow the title: a year or a range, a tag, or both in either order
Tails ==
  LET years == {YearSuffix, YearRangeSuffix}
  IN  {<<>>, BracketTag} \cup years \cup
      {BracketTag \o y : y \in years} \cup {y \o BracketTag : y \in years}

Variants(title) == {pre \o title \o suf : pre \in {<<>>} \cup KnownPrefixes, suf \in Tails}

NormStore ==
  [films |-> {Nos2024},
   aliases |-> {AliasRow(normalise_title(BaseTitle), Nos2024.id)},
   showings |-> {ShowingRow("c1", Nos2024.id, 1, BaseTitle)}]

NormWorld ==
  [free |-> TRUE, ans |-> [q \in Queries |-> None],
   cinemas |-> {c \in CinemaRows : c.id = "c1"},
   titles |-> Variants(BaseTitle), times |-> {1}, batch |-> RaceBatch]

InitNorm ==
  /\ films = NormStore.films
  /\ aliases = NormStore.aliases
  /\ showings = NormStore.showings
  /\ tx = [s \in Sessions |-> EmptyTx]
  /\ orm = [s \in Sessions |-> EmptyOrm]
  /\ sst = [s \in Sessions |-> "active"]
  /\ pc = [s \in Sessions |-> "idle"]
  /\ job = [s \in Sessions |-> NoJob]
  /\ loc = [s \in Sessions |-> NoLoc]
  /\ log = {}
  /\ world = NormWorld
  /\ nops = 0

NextNorm ==
  \/ StartTrigger("s1")
  \/ ScrapeCinema("s1")
  \/ ScrapeNext("s1")
  \/ MatchAlias("s1")
  \/ MatchFuzzy("s1")
  \/ MatchCreate("s1")
  \/ MatchGet("s1")
  \/ StoreAliasSelect("s1")
  \/ StoreAliasInsert("s1")
  \/ ScrapeExisting("s1")
  \/ ScrapeInsert("s1")
  \/ ScrapeCommit("s1")
  \/ ScrapeDone("s1")
  \/ NewSession("s1")

SpecNorm == InitNorm /\ [][NextNorm]_vars

(***************************************************************************)
(* C19: normalise_title maps a title and every variant of it obtained by   *)
(* adding a trailing year or year range, a square-bracket tag or a known   *)
(* prefix, in any combination and order of appearance, to the same         *)
(* normalised string.                                                      *)
(***************************************************************************)
C19_VariantsNormaliseAlike ==
  \A s \in Sessions :
    loc[s].raw \in Variants(BaseTitle) => loc[s].nt = normalise_title(BaseTitle)

(***************************************************************************)
(* C20: in every reachable state, after any sequence of                    *)
(* match_or_create_film, backfill and clean_placeholders operations, no    *)
(* two Film rows share a non-null tmdb_id, in the committed table and in   *)
(* what each session sees (Spec).                                          *)
(***************************************************************************)
OneFilmPerTmdbId(F) ==
  \A f, g \in F : (f.tmdb_id # None /\ f.tmdb_id = g.tmdb_id) => f = g

C20_TmdbIdUnique ==
  /\ OneFilmPerTmdbId(films)
  /\ \A s \in Sessions : OneFilmPerTmdbId(VFilms(s))

\* TMDb answered a lookup with a film whose tmdb_id another row already holds,
\* and the INSERT of a second row for it was rejected
C20_Witness ==
  \E s \in Sessions :
    /\ pc[s] = "m_get"
    /\ loc[s].found
    /\ loc[s].fid \notin Ids(VFilms(s))
    /\ \E f \in films : f.tmdb_id # None /\ f.id # loc[s].fid

(***************************************************************************)
(* TMDbClient on its own: calls of search_film and get_film_details with   *)
(* and without an API key, against a server that fails, answers with an    *)
(* error status, sends no JSON, or answers                                 *)
(***************************************************************************)
MaxCalls == 2

ApiKeys == {None, Some("key")}

\* client.get raises, raise_for_status raises, response.json() raises, or a body
HttpOutcomes == {"network_error", "http_error", "bad_json", "ok"}

\* data["results"] of a search response
ResultLists == {<<>>} \cup {<<e>> : e \in TmdbCatalog}

Returned(v) == [raised |-> FALSE, value |-> v]

Raised(e) == [raised |-> TRUE, value |-> e]

\* a try block without an except clause
ExceptNothing(r) == r

\* except Exception as e: logger.error(...); return None
ExceptException(r) == IF r.raised THEN Returned(None) ELSE r

\* the body of the try block of search_film
SearchBody(http, results) ==
  IF http = "network_error" THEN Raised("ConnectError")
  ELSE IF http = "http_error" THEN Raised("HTTPStatusError")
  ELSE IF http = "bad_json" THEN Raised("JSONDecodeError")
  ELSE IF results = <<>> THEN Returned(None)
  ELSE Returned(Some(results[1]))

TMDbClient_search_film(api_key, http, results) ==
  IF api_key = None THEN Returned(None) ELSE ExceptException(SearchBody(http, results))

\* the body of the try block of get_film_details
DetailsBody(http, entry) ==
  IF http = "network_error" THEN Raised("ConnectError")
  ELSE IF http = "http_error" THEN Raised("HTTPStatusError")
  ELSE IF http = "bad_json" THEN Raised("JSONDecodeError")
  ELSE Returned(Some(entry))

TMDbClient_get_film_details(api_key, http, entry) ==
  IF api_key = None THEN Returned(None) ELSE ExceptException(DetailsBody(http, entry))

TmdbWorld ==
  [free |-> TRUE, ans |-> [q \in Queries |-> None], cinemas |-> {},
   titles |-> {}, times |-> {}, batch |-> 0]

InitTmdb ==
  /\ films = {}
  /\ aliases = {}
  /\ showings = {}
  /\ tx = [s \in Sessions |-> EmptyTx]
  /\ orm = [s \in Sessions |-> EmptyOrm]
  /\ sst = [s \in Sessions |-> "active"]
  /\ pc = [s \in Sessions |-> "idle"]
  /\ job = [s \in Sessions |-> NoJob]
  /\ loc = [s \in Sessions |-> NoLoc]
  /\ log = {}
  /\ world = TmdbWorld
  /\ nops = 0

\* one call of search_film
SearchCall ==
  /\ nops < MaxCalls
  /\ nops' = nops + 1
  /\ \E k \in ApiKeys, h \in HttpOutcomes, rs \in ResultLists :
       log' = log \cup {[op |-> "search_film", api_key |-> k, http |-> h, results |-> rs,
                         out |-> TMDbClient_search_film(k, h, rs)]}
  /\ UNCHANGED <<films, aliases, showings, tx, orm, sst, pc, job, loc, world>>

\* one call of get_film_details
DetailsCall ==
  /\ nops < MaxCalls
  /\ nops' = nops + 1
  /\ \E k \in ApiKeys, h \in HttpOutcomes, e \in TmdbCatalog :
       log' = log \cup {[op |-> "get_film_details", api_key |-> k, http |-> h,
                         results |-> <<e>>,
                         out |-> TMDbClient_get_film_details(k, h, e)]}
  /\ UNCHANGED <<films, aliases, showings, tx, orm, sst, pc, job, loc, world>>

NextTmdb ==
  \/ SearchCall
  \/ DetailsCall

SpecTmdb == InitTmdb /\ [][NextTmdb]_vars

(***************************************************************************)
(* C21: search_film and get_film_details never raise: with no API key, an  *)
(* HTTP error status, a network exception or (for search) an empty result  *)
(* list they return None.                                                  *)
(***************************************************************************)
C21_TmdbNeverRaises ==
  \A r \in log :
    /\ ~r.out.raised
    /\ (\/ r.api_key = None
        \/ r.http \in {"network_error", "http_error"}
        \/ (r.op = "search_film" /\ r.http = "ok" /\ r.results = <<>>))
       => r.out.value = None

\* with an API key, one search met a network exception and one details call an
\* error status
C21_Witness ==
  /\ \E r \in log : r.op = "search_film" /\ r.api_key # None /\ r.http = "network_error"
  /\ \E r \in log : r.op = "get_film_details" /\ r.api_key # None /\ r.http = "http_error"

(***************************************************************************)
(* C22: the stages of match_or_create_film run in the order alias lookup,  *)
(* fuzzy match, external lookup, placeholder and stop at the first hit: a  *)
(* call whose alias lookup hits returns at once, with no fuzzy scan, no    *)
(* external lookup and no write to the store; the fuzzy scan starts only   *)
(* after the alias lookup missed, and the external lookup only after the   *)
(* fuzzy match missed as well.                                             *)
(***************************************************************************)
AliasHit(s) == sst[s] = "active" /\ _check_alias(s, loc[s].nt) # None

FuzzyMiss(s) == \E fs \in Orders(VFilms(s)) : _fuzzy_match(loc[s].nt, fs) = None

C22_StagesInOrder ==
  [][\A s \in Sessions :
       /\ (pc[s] = "m_alias" /\ pc'[s] # "m_alias" /\ AliasHit(s))
          => /\ pc'[s] = "existing"
             /\ loc'[s].film = _check_alias(s, loc[s].nt)
             /\ loc'[s].searches = 0 /\ loc'[s].details = 0
             /\ tx'[s] = tx[s] /\ orm'[s] = orm[s]
             /\ films' = films /\ aliases' = aliases /\ showings' = showings
       /\ (pc'[s] = "m_fuzzy" /\ pc[s] # "m_fuzzy")
          => (pc[s] = "m_alias" /\ ~AliasHit(s))
       /\ (pc'[s] = "m_create" /\ pc[s] # "m_create")
          => (pc[s] = "m_fuzzy" /\ FuzzyMiss(s))
       /\ (loc'[s].searches > loc[s].searches \/ loc'[s].details > loc[s].details)
          => pc[s] = "m_create"
       /\ (pc[s] = "m_create" /\ pc'[s] # "m_create" /\ loc'[s].film # None)
          => (loc'[s].film[1].tmdb_id = None <=> ~loc'[s].found)]_vars

\* one call returned through an alias hit and another, on the same store, went
\* through both misses to the external lookup
C22_Witness ==
  /\ \E r \in log : r.path = "alias" /\ r.res # None
  /\ \E s \in Sessions : pc[s] = "m_store" /\ loc[s].searches = 1 /\ loc[s].path = "tmdb"

(***************************************************************************)
(* C23: after a match_or_create_film call with no concurrent caller        *)
(* returns film F, a FilmAlias for the normalised title exists in the      *)
(* session's store and points to F.id, whichever path produced F: alias    *)
(* hit, fuzzy match, external creation, placeholder creation or recovery   *)
(* from a uniqueness violation (SpecSeq).                                  *)
(***************************************************************************)
AliasPointsTo(A, nt, film_id) ==
  \E a \in A : a.normalized_title = nt /\ a.film_id = film_id

C23_AliasAfterReturn ==
  \A s \in Sessions :
    JustReturned(s) => AliasPointsTo(VAliases(s), loc[s].nt, loc[s].film[1].id)

\* a call has just returned the film it re-read after a uniqueness violation, and
\* an earlier call returned through another path
C23_Witness ==
  \E s \in Sessions :
    /\ JustReturned(s)
    /\ loc[s].path = "recovered"
    /\ \E r \in log : r.res # None /\ r.path \in {"alias", "fuzzy", "tmdb", "placeholder"}

(***************************************************************************)
(* Ties in the fuzzy stage: a store with two films whose titles score the  *)
(* same against a listed title, or with no film at all, scraped by the     *)
(* jobs of a single session                                                *)
(***************************************************************************)
\* fuzz.ratio of "Nosf" with "Nosfa" and with "Nosfb" is 200 * 4 / 9, with "Nos" 200 * 3 / 7
Nosfa == FilmRow(<<"n","o","s","f","a">>, <<"N","o","s","f","a">>, None, None, FALSE)

Nosfb == FilmRow(<<"n","o","s","f","b">>, <<"N","o","s","f","b">>, None, None, FALSE)

TieStores ==
  { [films |-> F,
     aliases |-> {AliasRow(normalise_title(f.title), f.id) : f \in F},
     showings |-> {ShowingRow("c1", f.id, 2, f.title) : f \in F}] :
       F \in {{}, {Nosfa, Nosfb}} }

TieWorld ==
  [free |-> FALSE, ans |-> [q \in Queries |-> None],
   cinemas |-> {c \in CinemaRows : c.id = "c1"},
   titles |-> {RawNosf, BaseTitle}, times |-> {1}, batch |-> MaxBatch]

InitTie ==
  /\ \E st \in TieStores : /\ films = st.films
                           /\ aliases = st.aliases
                           /\ showings = st.showings
  /\ tx = [s \in Sessions |-> EmptyTx]
  /\ orm = [s \in Sessions |-> EmptyOrm]
  /\ sst = [s \in Sessions |-> "active"]
  /\ pc = [s \in Sessions |-> "idle"]
  /\ job = [s \in Sessions |-> NoJob]
  /\ loc = [s \in Sessions |-> NoLoc]
  /\ log = {}
  /\ world = TieWorld
  /\ nops = 0

NextTie ==
  \/ StartTrigger("s1")
  \/ ScrapeCinema("s1")
  \/ ScrapeNext("s1")
  \/ MatchAlias("s1")
  \/ MatchFuzzy("s1")
  \/ MatchCreate("s1")
  \/ StoreAliasSelect("s1")
  \/ StoreAliasInsert("s1")
  \/ ScrapeExisting("s1")
  \/ ScrapeInsert("s1")
  \/ ScrapeCommit("s1")
  \/ ScrapeDone("s1")
  \/ NewSession("s1")

SpecTie == InitTie /\ [][NextTie]_vars

(***************************************************************************)
(* C24: _fuzzy_match selects a film whose similarity score is the maximum  *)
(* over all films, and among films with the same maximum score the one     *)
(* that comes first in iteration order; an empty film table, and a table   *)
(* in which no film reaches the threshold, both yield None.                *)
(***************************************************************************)
ScoreOf(nt, film) == ratio(lower(nt), lower(film.title))

ScoreLE(x, y) == x[1] * y[2] <= y[1] * x[2]

\* i is the first position of fs that holds the maximum score
FirstMax(nt, fs, i) ==
  /\ \A j \in 1..Len(fs) : ScoreLE(ScoreOf(nt, fs[j]), ScoreOf(nt, fs[i]))
  /\ \A j \in 1..(i - 1) : ~ScoreLE(ScoreOf(nt, fs[i]), ScoreOf(nt, fs[j]))

C24_FirstMaximumWins ==
  [][\A s \in Sessions :
       (pc[s] = "m_fuzzy" /\ pc'[s] # "m_fuzzy")
       => /\ (\A f \in VFilms(s) : ~ScoreLE(<<85, 1>>, ScoreOf(loc[s].nt, f)))
             => (pc'[s] = "m_create" /\ loc'[s].film = None)
          /\ pc'[s] = "m_store"
             => /\ loc'[s].scan \in Orders(VFilms(s))
                /\ \E i \in 1..Len(loc'[s].scan) :
                     /\ loc'[s].film = Some(loc'[s].scan[i])
                     /\ FirstMax(loc[s].nt, loc'[s].scan, i)]_vars

\* the scan met two films with the maximum score and took the first of them; an
\* earlier call of the job found no film at the threshold
C24_Witness ==
  \E s \in Sessions :
    /\ pc[s] = "m_store" /\ loc[s].path = "fuzzy"
    /\ Len(loc[s].scan) >= 2
    /\ loc[s].film = Some(loc[s].scan[1])
    /\ ScoreOf(loc[s].nt, loc[s].scan[1]) = ScoreOf(loc[s].nt, loc[s].scan[2])
    /\ \E r \in log : r.path = "placeholder"

(***************************************************************************)
(* The same programme scraped again: a website that returns the same list  *)
(* of raw showings to every scrape, an empty store, and the requests of a  *)
(* single session one after the other                                      *)
(***************************************************************************)
Programmes ==
  UNION {[1..n -> {RawRohQa, RawNosYear} \X {1, 2}] : n \in 1..MaxBatch}

\* TMDb knows no film, or the film "Nos"
TwiceAnswers ==
  { [q \in Queries |-> None],
    [q \in Queries |-> IF q = <<"N","o","s">> THEN Some(CHOOSE e \in TmdbCatalog : TRUE)
                       ELSE None] }

TwiceWorlds ==
  { [free |-> FALSE, ans |-> a, cinemas |-> {c \in CinemaRows : c.id = "c1"},
     titles |-> {}, times |-> {}, batch |-> 0, list |-> l] :
       a \in TwiceAnswers, l \in Programmes }

InitTwice ==
  /\ films = {}
  /\ aliases = {}
  /\ showings = {}
  /\ tx = [s \in Sessions |-> EmptyTx]
  /\ orm = [s \in Sessions |-> EmptyOrm]
  /\ sst = [s \in Sessions |-> "active"]
  /\ pc = [s \in Sessions |-> "idle"]
  /\ job = [s \in Sessions |-> NoJob]
  /\ loc = [s \in Sessions |-> NoLoc]
  /\ log = {}
  /\ world \in TwiceWorlds
  /\ nops = 0

NextTwice ==
  \/ StartTrigger("s1")
  \/ ScrapeCinema("s1")
  \/ ScrapeNext("s1")
  \/ MatchAlias("s1")
  \/ MatchFuzzy("s1")
  \/ MatchCreate("s1")
  \/ StoreAliasSelect("s1")
  \/ StoreAliasInsert("s1")
  \/ ScrapeExisting("s1")
  \/ ScrapePlaceholder("s1")
  \/ ScrapeInsert("s1")
  \/ ScrapeCommit("s1")
  \/ ScrapeDone("s1")
  \/ NewSession("s1")

SpecTwice == InitTwice /\ [][NextTwice]_vars

(***************************************************************************)
(* C25: trigger_scrape run twice in sequence for the same cinema with the  *)
(* same list of raw showings leaves the same set of Showing rows as one    *)
(* run: in the second run every raw showing finds its (cinema, film,       *)
(* start_time) row and no row is created (showings_created = 0).           *)
(***************************************************************************)
\* s is in the second request, and the first one has scraped the cinema (the store
\* was empty before it)
SecondRun(s) == nops = 1 /\ job[s].kind = "trigger" /\ aliases # {}

C25_SecondScrapeChangesNothing ==
  [][\A s \in Sessions :
       SecondRun(s)
       => /\ showings' = showings
          /\ (pc[s] = "existing" /\ pc'[s] # "existing") => pc'[s] = "next"
          /\ pc[s] = "commit" => loc[s].created = 0]_vars

(***************************************************************************)
(* C27: in a trigger_scrape batch for one cinema whose raw showings        *)
(* resolve to pairwise distinct films, processing a later raw showing      *)
(* never deletes or re-points the Showing row stored for an earlier raw    *)
(* showing of the batch: after the commit each raw showing has its own     *)
(* Showing row on the film it resolved to, also when two of them start at  *)
(* the same time (SpecTwice; the last two raw showings of the list).       *)
(***************************************************************************)
HasShowing(S, cinema_id, film_id, start_time) ==
  \E r \in S : ShowKey(r) = <<cinema_id, film_id, start_time>>

\* the batch of s is at its commit, and its last two raw showings resolved to two
\* different films
TwoFilmsResolved(s) ==
  /\ pc[s] = "commit" /\ job[s].kind = "trigger" /\ Scripted
  /\ loc[s].n = Len(world.list) /\ loc[s].n >= 2
  /\ loc[s].film # None /\ loc[s].prev # None /\ loc[s].prev[1].res # None
  /\ loc[s].prev[1].res[1] # loc[s].film[1].id

C27_EarlierRowsKept ==
  [][\A s \in Sessions :
       (TwoFilmsResolved(s) /\ CommitStatus(s) = "ok" /\ pc'[s] # "commit")
       => /\ HasShowing(showings', loc[s].c, loc[s].prev[1].res[1],
                        world.list[loc[s].n - 1][2])
          /\ HasShowing(showings', loc[s].c, loc[s].film[1].id, loc[s].start)]_vars

(***************************************************************************)
(* Placeholder showings met by a resolved film: an empty store, TMDb       *)
(* knowing no film until its database gets them, and the requests of a     *)
(* single session one after the other                                      *)
(***************************************************************************)
RawNosfa == <<"N","o","s","f","a">>

MigrateWorld ==
  [free |-> FALSE, ans |-> [q \in Queries \cup {normalise_title(RawNosfa)} |-> None],
   cinemas |-> {c \in CinemaRows : c.id = "c1"},
   titles |-> {RawRohQa, RawNosfa, RawNosYear}, times |-> {1}, batch |-> MaxBatch]

InitMigrate ==
  /\ films = {}
  /\ aliases = {}
  /\ showings = {}
  /\ tx = [s \in Sessions |-> EmptyTx]
  /\ orm = [s \in Sessions |-> EmptyOrm]
  /\ sst = [s \in Sessions |-> "active"]
  /\ pc = [s \in Sessions |-> "idle"]
  /\ job = [s \in Sessions |-> NoJob]
  /\ loc = [s \in Sessions |-> NoLoc]
  /\ log = {}
  /\ world = MigrateWorld
  /\ nops = 0

NextMigrate ==
  \/ StartTrigger("s1")
  \/ ScrapeCinema("s1")
  \/ ScrapeNext("s1")
  \/ MatchAlias("s1")
  \/ MatchFuzzy("s1")
  \/ MatchCreate("s1")
  \/ MatchGet("s1")
  \/ StoreAliasSelect("s1")
  \/ StoreAliasInsert("s1")
  \/ ScrapeExisting("s1")
  \/ ScrapePlaceholder("s1")
  \/ ScrapeInsert("s1")
  \/ ScrapeCommit("s1")
  \/ ScrapeDone("s1")
  \/ NewSession("s1")
  \/ TmdbPublish

SpecMigrate == InitMigrate /\ [][NextMigrate]_vars

(***************************************************************************)
(* C26: in trigger_scrape, when a raw showing resolves to a film with      *)
(* tmdb_id set, no Showing exists for (cinema, that film, start_time) and  *)
(* a Showing of a placeholder film exists at the same cinema and start     *)
(* time, that showing is re-pointed to the resolved film and updated, and  *)
(* no new Showing row is created.                                          *)
(***************************************************************************)
\* the showings of placeholder films at the cinema and start time of the raw showing
PlaceholderShowings(s) ==
  {r \in VShowings(s) :
     /\ r.cinema_id = loc[s].c
     /\ r.start_time = loc[s].start
     /\ \E f \in VFilms(s) : f.id = r.film_id /\ f.tmdb_id = None}

C26_PlaceholderShowingMigrated ==
  [][\A s \in Sessions :
       (pc[s] = "placeholder" /\ pc'[s] # "placeholder" /\ PlaceholderShowings(s) # {})
       => /\ pc'[s] = "next"
          /\ loc'[s].created = loc[s].created
          /\ tx'[s] = tx[s]
          /\ \E r \in PlaceholderShowings(s) :
               \E p \in orm'[s].upd :
                 /\ p[1] = r
                 /\ p[2].film_id = loc[s].film[1].id
                 /\ p[2].raw_title = loc[s].raw]_vars

(***************************************************************************)
(* C28: for each cinema that run_scrape_all or trigger_scrape reports as   *)
(* successful, the reported showings_created equals the number of Showing  *)
(* rows that are newly present in the store after that cinema's batch      *)
(* commit (SpecSeq).                                                       *)
(***************************************************************************)
ReportedSuccess(s) == pc[s] = "commit" /\ CommitStatus(s) \in {"ok", "integrity"}

C28_CreatedCountsNewRows ==
  [][\A s \in Sessions :
       (ReportedSuccess(s) /\ pc'[s] = "cinema")
       => /\ Result(loc[s].c, TRUE, loc[s].created) \in job'[s].results
          /\ loc[s].created = Cardinality(showings') - Cardinality(showings)]_vars

(***************************************************************************)
(* clean_placeholders twice in a row: the script is run, and run again, on  *)
(* a store of placeholders and TMDb films with any of their aliases and     *)
(* showings; nothing else touches the store                                 *)
(***************************************************************************)
CleanFilms == {Nosf, QaNos, Nos2024}

RawOf(film) ==
  IF film = Nosf THEN RawNosf ELSE IF film = QaNos THEN RawRohQa ELSE RawNosYear

CleanStores ==
  UNION { { [films |-> F, aliases |-> A, showings |-> S] :
              A \in SUBSET {AliasRow(normalise_title(RawOf(f)), f.id) : f \in F},
              S \in SUBSET {ShowingRow("c1", f.id, t, RawOf(f)) : f \in F, t \in {1, 2}} } :
          F \in SUBSET CleanFilms }

InitClean ==
  /\ \E st \in CleanStores : /\ films = st.films
                             /\ aliases = st.aliases
                             /\ showings = st.showings
  /\ tx = [s \in Sessions |-> EmptyTx]
  /\ orm = [s \in Sessions |-> EmptyOrm]
  /\ sst = [s \in Sessions |-> "active"]
  /\ pc = [s \in Sessions |-> "idle"]
  /\ job = [s \in Sessions |-> NoJob]
  /\ loc = [s \in Sessions |-> NoLoc]
  /\ log = {}
  /\ world = SeqWorld
  /\ nops = 0

NextClean ==
  \/ StartClean("s1", FALSE)
  \/ CleanNext("s1")
  \/ CleanPlan("s1")
  \/ CleanDelete("s1")
  \/ CleanCommit("s1")
  \/ NewSession("s1")

SpecClean == InitClean /\ [][NextClean]_vars

\* the end of the second run
SecondClean(s) == nops = 1 /\ pc[s] = "c_commit" /\ pc'[s] = "closed"

\* C29: clean_placeholders(dry_run=False) run twice in a row: the second run merges
\* no placeholder and leaves the films, aliases and showings as the first run left them
C29_CleanIdempotent ==
  [][\A s \in Sessions :
       SecondClean(s) => /\ job[s].merges = {}
                         /\ films' = films
                         /\ aliases' = aliases
                         /\ showings' = showings]_vars

(***************************************************************************)
(* C30: normalise_title is idempotent: normalising the normalised form of  *)
(* a title a website lists gives that normalised form again, so the title  *)
(* stored with a placeholder (SpecNorm) normalises to the key under which   *)
(* it was resolved.                                                        *)
(***************************************************************************)
C30_NormaliseIdempotent ==
  \A s \in Sessions :
    loc[s].raw # <<>> => normalise_title(loc[s].nt) = loc[s].nt

====
